---------------------------- MODULE Spec2Model ----------------------------
(***************************************************************************)
(* State-machine model of the goals app (GoalsApp React components).      *)
(*                                                                         *)
(* The repository holds several variants of the same component.  The      *)
(* model keeps one state per variant family, selected by `variant`:       *)
(*   "dynamic" - live credit applier, auto-carry (GoalApp.tsx:966-1972,   *)
(*               unnamed/part_006:1-1413)                                  *)
(*   "lock"    - explicit close-day step, catch-up dialog                 *)
(*               (GoalApp.tsx:1-964, unnamed/part_005,                     *)
(*               unnamed/part_006:1414-2170)                               *)
(*   "entries" - per-goal dailyEntries (unnamed/part_007)                  *)
(*                                                                         *)
(* React scheduling: an event handler's state updates are applied in one  *)
(* render; the effects whose dependencies changed then run against that   *)
(* render's snapshot and queue their own updates, which are applied in    *)
(* source order in the next render.  `changed` holds the dependencies     *)
(* that changed in the last render; event handlers run only once the      *)
(* effects have settled (changed = {}).                                    *)
(***************************************************************************)
EXTENDS Integers, Sequences, FiniteSets, TLC

(* ------------------------------ bounds -------------------------------- *)
MaxGoals == 2
MaxIds   == 2
MaxDay   == 2

GoalIds == 1..MaxGoals
TaskIds == 1..MaxIds
Days    == 1..MaxDay
NoDay   == 0
NoGoal  == 0
NoTask  == 0
\* null (a time that is not set)
None    == -1
\* NaN (the value of arithmetic on an invalid date), outside every range
NaN     == -1000

\* weights and percents the model explores (results outside are not explored)
Weights  == {5, 90}
Percents == {0, 25, 35, 100}
\* the quick-jump buttons [0,25,50,100]
QuickChoices == {0, 25, 50, 100}

\* percents explored in the lock variant (besides the 0 a task starts with)
LockPercents == {50, 100}
\* the "Did you try well?" buttons explored, and the reason texts explored:
\* empty, whitespace only, and a real reason (strings are sequences of
\* one-character strings)
TriedChoices == {"Yes"}
WhyTexts     == {<<>>, <<" ">>, <<"x">>}
\* the end-of-day reason field of the lock variant is explored empty and with
\* a real reason (the whitespace-only reason is explored in its catch-up
\* dialog, which applies the same test, and in the many-task exploration)
DayWhyTexts  == {<<>>, <<"x">>}
\* progress values found in storage when the lock variant starts
StoredProgress == {98}
\* percents explored for the choice variant (of PCT) and postpone dialog texts
ChoicePercents == {0, 20, 100}
PostTexts == {<<"x">>}
\* the exploration stops after this many runs of closeDayAndUpdate
MaxCloses == 2
\* entries variant: tasks per entry, and the progress buttons explored
MaxEntryTasks == 1
\* the focus panel is explored for this many seconds and session starts
MaxNow == 1805
\* seconds after the prompt appeared at which the user acknowledges it
AckDelays == {1, 30}
MaxStarts == 1
\* goal panel: target dates explored (days), besides the empty date field
MaxTarget == 3
\* stored strings explored: up to this many characters
MaxLen == 4
\* lock variant with a long task list: tasks of the stored plan, and
\* the percents they stand at
MaxManyTasks == 10
ManyPercents == {45, 50}
EntryChoices  == {0, 50, 100}

\* journal page: characters typed into "Where do I lack?", loads of one
\* date in flight at a time, habit documents explored, and habits whose
\* checkbox is used
MaxTyped == 1
MaxLoads == 2
MaxHabitDocs == 4
MaxToggled == 1
SeedGoal     == 1
SeedProgress == 10
NewProgress  == 0
DefaultWeight == 5

VARIABLES variant, today, goals, plans, meta, changed,
          tried, whyNot, postponeMap,
          catchOpen, catchDate, catchTasks, cuTried, cuWhy,
          lastEdit, lastPass, closes,
          taskOpen, taskGoalId, taskDate, reflectOpen, reflectGoalId, reflectDate,
          postOpen, postTask, lsKey, lsItem, loadOut,
          running, remainingSec, needsAck, ackDeadline, nextAckAt, tickRef, startTimeRef,
          now, cbRunning, cbNeedsAck, promptedAt, starts, focusedCount, focusedSessions,
          journalApp, page

vars == <<variant, today, goals, plans, meta, changed,
          tried, whyNot, postponeMap,
          catchOpen, catchDate, catchTasks, cuTried, cuWhy,
          lastEdit, lastPass, closes,
          taskOpen, taskGoalId, taskDate, reflectOpen, reflectGoalId, reflectDate,
          postOpen, postTask, lsKey, lsItem, loadOut,
          running, remainingSec, needsAck, ackDeadline, nextAckAt, tickRef, startTimeRef,
          now, cbRunning, cbNeedsAck, promptedAt, starts, focusedCount, focusedSessions,
          journalApp, page>>

\* the postpone dialog of the choice variant
choiceUI == <<postOpen, postTask>>

\* the state that only the families added after the lock, dynamic and
\* entries families use
\* the focus panel (part_006:242-464): its state, the refs, and
\*   now        - Date.now() in seconds since the page was loaded
\*   cbRunning, cbNeedsAck - the values of running and needsAck that the
\*                interval callback created by startTimer closed over
\*   focusedCount, focusedSessions - the fields recordSession writes into
\*                plans[dateKey] (the statuses of the logged sessions)
\* and two history variables, read by no handler:
\*   promptedAt - when the last check-in prompt was raised (None if it was
\*                acknowledged, or none was raised in this session)
\*   starts     - how many sessions have been started
focusUI == <<running, remainingSec, needsAck, ackDeadline, nextAckAt, tickRef, startTimeRef,
             now, cbRunning, cbNeedsAck, promptedAt, starts, focusedCount, focusedSessions>>

\* localStorage as load() finds it, and what load() returned:
\*   lsKey   - the key read
\*   lsItem  - what getItem(lsKey) does: it throws, or returns the stored
\*             string raw (null when nothing is stored: present = FALSE)
\*   loadOut - the outcome of load(lsKey, fallback) once it has run
loadUI == <<lsKey, lsItem, loadOut>>

\* the journal page (components/JournalApp.tsx) and the mounting of the
\* goals page (its local storage and the effects still to run)
cloudUI == <<journalApp, page>>

auxUI == <<choiceUI, focusUI, loadUI, cloudUI>>

\* the dialog state of the entries variant
entUI == <<taskOpen, taskGoalId, taskDate, reflectOpen, reflectGoalId, reflectDate>>

\* History, written by the model only and read by no handler:
\*   lastEdit - the goal whose task the last handler edited, until the
\*              effects settle (0 when the last handler edited no task)
\*   lastPass - what the last effects pass did, until the next handler;
\*              rolled: the day has changed and no handler has run since
\*   closes   - how many times closeDayAndUpdate has run
NoPass == [ran |-> FALSE, applied |-> FALSE, credits |-> <<>>, goals |-> <<>>, rolled |-> FALSE]

lockUI == <<tried, whyNot, postponeMap, catchOpen, catchDate, catchTasks, cuTried, cuWhy, closes,
            taskOpen, taskGoalId, taskDate, reflectOpen, reflectGoalId, reflectDate>>

(* ------------------------------ helpers ------------------------------- *)
Min(a, b) == IF a < b THEN a ELSE b
Max(a, b) == IF a > b THEN a ELSE b

\* clamp(n, min, max) = Math.min(Math.max(n, min), max)
clamp(n, lo, hi) == Min(Max(n, lo), hi)

\* Math.round(n / d) for d > 0: nearest integer, ties towards +infinity
Round(n, d) == (2 * n + d) \div (2 * d)

\* a mutation of step: the result is not clamped
stepNoClamp(n) == Round(n + 5, 5) * 5

\* step(n, delta = 5) = clamp(Math.round((n + delta) / 5) * 5, 0, 100);
\* every caller passes one argument, so delta is always the default 5
step(n) == clamp(Round(n + 5, 5) * 5, 0, 100)

Put(f, k, v) == [x \in (DOMAIN f) \cup {k} |-> IF x = k THEN v ELSE f[x]]

Range(s) == {s[i] : i \in 1..Len(s)}

RECURSIVE SumSeq(_)
SumSeq(s) == IF s = <<>> THEN 0 ELSE Head(s) + SumSeq(Tail(s))

RECURSIVE Filter(_, _)
\* Array.prototype.filter with a membership test
Filter(s, keep) ==
  IF s = <<>> THEN <<>>
  ELSE IF Head(s) \in keep THEN <<Head(s)>> \o Filter(Tail(s), keep)
       ELSE Filter(Tail(s), keep)

\* the default plan object `{ date, priorities: [], tasks: [], credits: {}, postponeFlags: {} }`
EmptyPlan ==
  [priorities |-> <<>>, tasks |-> <<>>, locked |-> FALSE,
   credits |-> <<>>, postponeFlags |-> {}, carriedFrom |-> NoDay]

PlanOf(p, d) == IF d \in DOMAIN p THEN p[d] ELSE EmptyPlan

\* a mutation of TasksOfGoal: the tasks are not filtered by goal
TasksOfGoalAll(tasks, gid) == tasks

TasksOfGoal(tasks, gid) == Filter(tasks, {t \in Range(tasks) : t.goalId = gid})

Percentages(tasks) == [i \in 1..Len(tasks) |-> tasks[i].percent]

\* ids referenced anywhere in the state; uid() never collides with them.
\* The handlers that consume or reserve an id keep one free id per flagged
\* task, so the copies made on the next day always find fresh ids.
UsedIds ==
  UNION {{t.id : t \in Range(plans[d].tasks)} \cup plans[d].postponeFlags : d \in DOMAIN plans}
    \cup postponeMap \cup {t.id : t \in Range(catchTasks)}

FreeIds == TaskIds \ UsedIds

RECURSIVE SetToSeq(_)
SetToSeq(S) ==
  IF S = {} THEN <<>>
  ELSE LET m == CHOOSE x \in S : \A y \in S : x <= y IN <<m>> \o SetToSeq(S \ {m})

\* uid() = Math.random().toString(36).slice(2, 10): a fresh identifier
uid == CHOOSE x \in FreeIds : \A y \in FreeIds : x <= y


(* ------------------- rollup arithmetic (dynamic) ---------------------- *)
\* (avg, weight) pairs whose IEEE-754 product (avg / 100) * weight falls just
\* below the tie n + 0.5 that the exact product avg * weight / 100 hits
FloatShort ==
  {<<29, 50>>, <<35, 90>>, <<57, 50>>, <<58, 25>>, <<70, 45>>, <<70, 85>>, <<82, 75>>}

\* a mutation of dayAverage: the sum is not divided by the number of tasks
dayAverageSum(list) == SumSeq(Percentages(list))

\* avg = Math.round(list.reduce((s, t) => s + t.percent, 0) / list.length)
dayAverage(list) == Round(SumSeq(Percentages(list)), Len(list))

\* delta = Math.round((avg / 100) * weight), in double arithmetic
creditDelta(avg, weight) ==
  IF <<avg, weight>> \in FloatShort THEN Round(avg * weight, 100) - 1
  ELSE Round(avg * weight, 100)

\* g?.dailyWeight ?? 5
weightOf(gs, gid) == IF gid \in DOMAIN gs THEN gs[gid].dailyWeight ELSE DefaultWeight

\* prevCredits[k] || 0
creditAt(credits, gid) == IF gid \in DOMAIN credits THEN credits[gid] ELSE 0

\* nextCredits: one entry per goal with tasks today, and 0 for every goal
\* that had a credit but has no task any more
nextCreditsOf(gs, cur) ==
  LET withTasks == {t.goalId : t \in Range(cur.tasks)}
  IN [gid \in withTasks \cup DOMAIN cur.credits |->
        IF gid \in withTasks
        THEN creditDelta(dayAverage(TasksOfGoal(cur.tasks, gid)), weightOf(gs, gid))
        ELSE 0]

creditsChanged(prevCredits, nextCredits) ==
  \E k \in (DOMAIN prevCredits) \cup (DOMAIN nextCredits) :
    creditAt(prevCredits, k) # creditAt(nextCredits, k)

\* a mutation of applyDiff: the whole new credit is added, not the difference
applyDiffWhole(progress, before, after) ==
  IF after - before = 0 THEN progress ELSE clamp(progress + after, 0, 100)

\* progress: clamp(g.progress + diff, 0, 100) with diff = after - before
applyDiff(progress, before, after) ==
  IF after - before = 0 THEN progress ELSE clamp(progress + (after - before), 0, 100)

\* setGoals(prev => prev.map(...)) of the applier
applyCreditsToGoals(gs, prevCredits, nextCredits) ==
  [g \in DOMAIN gs |->
     [gs[g] EXCEPT !.progress =
        applyDiff(@, creditAt(prevCredits, g), creditAt(nextCredits, g))]]

\* a mutation of creditedPlan: the new credits are not persisted
creditedPlanNotStored(cur, nextCredits) == cur

\* "persist new credits": [today]: { ...cur, credits: nextCredits }
creditedPlan(cur, nextCredits) == [cur EXCEPT !.credits = nextCredits]

(* ---------------------- auto-carry (dynamic) -------------------------- *)
\* a mutation of toMoveOf: nothing is carried
toMoveOfNone(yPlan) == <<>>

\* toMove = yPlan.tasks.filter(t => flags[t.id] && t.percent < 100)
toMoveOf(yPlan) ==
  Filter(yPlan.tasks,
         {t \in Range(yPlan.tasks) : t.id \in yPlan.postponeFlags /\ t.percent < 100})

RECURSIVE mergePriorities(_, _)
\* for (const gid of carryGoalIds) if (!next.includes(gid)) next.push(gid)
mergePriorities(prios, moved) ==
  IF moved = <<>> THEN prios
  ELSE IF Head(moved).goalId \in Range(prios) THEN mergePriorities(prios, Tail(moved))
       ELSE mergePriorities(Append(prios, Head(moved).goalId), Tail(moved))

\* a mutation of copiesOf: the copy keeps the percent of the original
copiesKeepPercent(moved, free) ==
  [i \in 1..Len(moved) |->
     [id |-> free[i], goalId |-> moved[i].goalId, title |-> moved[i].title,
      how |-> moved[i].how, percent |-> moved[i].percent]]

\* copies: { id: uid(), goalId, title, how, percent: 0 }
copiesOf(moved, free) ==
  [i \in 1..Len(moved) |->
     [id |-> free[i], goalId |-> moved[i].goalId, title |-> moved[i].title,
      how |-> moved[i].how, percent |-> 0]]

\* does the carry effect write, given the snapshot?
carryWrites(p, day) ==
  /\ (day - 1) \in DOMAIN p
  /\ PlanOf(p, day).carriedFrom # day - 1

\* the plan the carry effect stores for today, computed from the snapshot
carriedPlan(p, day, free) ==
  LET tPlan == PlanOf(p, day)
      moved == toMoveOf(p[day - 1])
  IN IF moved = <<>> THEN [tPlan EXCEPT !.carriedFrom = day - 1]
     ELSE [tPlan EXCEPT !.carriedFrom = day - 1,
                        !.priorities = mergePriorities(tPlan.priorities, moved),
                        !.tasks = copiesOf(moved, free) \o tPlan.tasks]

(* --------------------------- initial state ---------------------------- *)
\* seed goal: progress 10, dailyWeight 5
seedGoals == [g \in {SeedGoal} |-> [progress |-> SeedProgress, dailyWeight |-> DefaultWeight]]

\* nothing is stored, and load() has not run in this model of the item
NoItem == [throws |-> FALSE, present |-> FALSE, raw |-> <<>>]
NotLoaded == [done |-> FALSE, raised |-> FALSE, value |-> [t |-> "none", n |-> 0, items |-> <<>>]]

\* a journal page that is not mounted, and a page whose mounting is not
\* followed, hold no state
NoJournal == <<>>
NoPage == <<>>

InitStorage ==
  /\ lsKey = ""
  /\ lsItem = NoItem
  /\ loadOut = NotLoaded

InitCore ==
  /\ today = 1
  /\ plans = <<>>
  /\ meta = <<>>
  /\ changed = IF variant = "entries" THEN {} ELSE {"ready"}
  /\ tried = ""
  /\ whyNot = <<>>
  /\ postponeMap = {}
  /\ catchOpen = FALSE
  /\ catchDate = NoDay
  /\ catchTasks = <<>>
  /\ cuTried = ""
  /\ cuWhy = <<>>
  /\ lastEdit = 0
  /\ lastPass = NoPass
  /\ closes = 0
  /\ taskOpen = FALSE
  /\ taskGoalId = NoGoal
  /\ taskDate = NoDay
  /\ reflectOpen = FALSE
  /\ reflectGoalId = NoGoal
  /\ reflectDate = NoDay
  /\ postOpen = FALSE
  /\ postTask = NoTask
  /\ running = FALSE
  /\ remainingSec = 0
  /\ needsAck = FALSE
  /\ ackDeadline = None
  /\ nextAckAt = None
  /\ tickRef = FALSE
  /\ startTimeRef = None
  /\ now = 0
  /\ cbRunning = FALSE
  /\ cbNeedsAck = FALSE
  /\ promptedAt = None
  /\ starts = 0
  /\ focusedCount = 0
  /\ focusedSessions = <<>>

InitApp ==
  /\ InitCore
  /\ journalApp = NoJournal
  /\ page = NoPage

\* state after mounting: load() found nothing stored and fell back to the
\* seed goals and empty maps; setReady(true) makes every effect run
InitShared ==
  /\ InitStorage
  /\ InitApp

InitDyn == variant = "dynamic" /\ goals = seedGoals /\ InitShared

(* ------------------ event handlers shared by variants ----------------- *)
Settled == changed = {}

planToday == PlanOf(plans, today)

\* goal ids referenced by some plan: a new goal's uid() differs from them
ReferencedGoals ==
  UNION {Range(plans[d].priorities) \cup {t.goalId : t \in Range(plans[d].tasks)}
           \cup DOMAIN plans[d].credits : d \in DOMAIN plans}
    \cup {t.goalId : t \in Range(catchTasks)}

\* (uid() is random: it never returns the seed goal's id again)
FreeGoalIds == GoalIds \ (DOMAIN goals \cup ReferencedGoals \cup {SeedGoal})

\* the rows of a goal's tasks are rendered for the day's priorities whose goal exists
Shown(t) == t.goalId \in Range(planToday.priorities) /\ t.goalId \in DOMAIN goals

\* tasks.map(t => t.id === taskId ? { ...t, percent: v } : t)
withPercent(tasks, taskId, v) ==
  [i \in 1..Len(tasks) |-> IF tasks[i].id = taskId THEN [tasks[i] EXCEPT !.percent = v] ELSE tasks[i]]

indexOf(s, x) == IF x \in Range(s) THEN CHOOSE i \in 1..Len(s) : s[i] = x /\ \A j \in 1..(i - 1) : s[j] # x ELSE 0

swap(s, i, j) == [s EXCEPT ![i] = s[j], ![j] = s[i]]

\* the plan updaters of the handlers: prev => next (prev itself when the
\* handler returns prev)
addPriorityTo(p, day, goalId) ==
  LET cur == PlanOf(p, day)
  IN IF goalId \in Range(cur.priorities) THEN p
     ELSE Put(p, day, [cur EXCEPT !.priorities = Append(@, goalId)])

removePriorityFrom(p, day, goalId) ==
  LET cur == PlanOf(p, day)
  IN Put(p, day, [cur EXCEPT !.priorities = Filter(@, Range(@) \ {goalId})])

movePriorityIn(p, day, goalId, dir) ==
  LET cur == PlanOf(p, day)
      idx == indexOf(cur.priorities, goalId)
      to  == IF dir = "up" THEN idx - 1 ELSE idx + 1
  IN IF idx = 0 \/ to < 1 \/ to > Len(cur.priorities) THEN p
     ELSE Put(p, day, [cur EXCEPT !.priorities = swap(@, idx, to)])

\* t = { id: uid(), goalId, title: title.trim(), how, percent: 0 }; the title
\* and the how text the user typed are named after the id the task gets, so
\* that no two tasks the user adds share a title
newTask(id, goalId) == [id |-> id, goalId |-> goalId, title |-> id, how |-> id, percent |-> 0]

addTaskTo(p, day, goalId, id) ==
  LET cur == PlanOf(p, day)
  IN Put(p, day, [cur EXCEPT !.tasks = <<newTask(id, goalId)>> \o @])

incTaskIn(p, day, taskId, delta) ==
  IF day \notin DOMAIN p THEN p
  ELSE LET cur == p[day]
           old == (CHOOSE t \in Range(cur.tasks) : t.id = taskId).percent
       IN Put(p, day, [cur EXCEPT !.tasks = withPercent(@, taskId, step(old + delta))])

setQuickIn(p, day, taskId, v) ==
  IF day \notin DOMAIN p THEN p
  ELSE Put(p, day, [p[day] EXCEPT !.tasks = withPercent(@, taskId, clamp(v, 0, 100))])

\* what changed in a render, given the state before and after (a handler that
\* returns prev leaves the dependency unchanged; a new object always counts)
Deps(plansWritten, goalsWritten, metaWritten) ==
  (IF plansWritten THEN {"plans"} ELSE {})
    \cup (IF goalsWritten THEN {"goals"} ELSE {})
    \cup (IF metaWritten THEN {"meta"} ELSE {})

(* ------------------- dynamic variant: event handlers ------------------ *)
\* In the dynamic variant no handler and no effect reads plan.priorities: the
\* list only selects the goals whose task rows are rendered, and the user can
\* select any existing goal at any time.  The dynamic family therefore lets
\* the rows of every existing goal be used and leaves the priority handlers
\* to the lock family, where they are the same code behind a lock check.
Dyn == variant = "dynamic" /\ Settled

DynShown(t) == t.goalId \in DOMAIN goals

DynAddGoal ==
  /\ Dyn
  /\ FreeGoalIds # {}
  /\ LET id == CHOOSE x \in FreeGoalIds : \A y \in FreeGoalIds : x <= y
     IN goals' = Put(goals, id, [progress |-> NewProgress, dailyWeight |-> DefaultWeight])
  /\ changed' = {"goals"}
  /\ UNCHANGED <<variant, auxUI, today, plans, meta, lockUI>>
  /\ lastEdit' = 0
  /\ lastPass' = NoPass

\* removeGoal also strips the goal from today's plan
DynRemoveGoal(id) ==
  /\ Dyn
  /\ id \in DOMAIN goals
  /\ goals' = [g \in DOMAIN goals \ {id} |-> goals[g]]
  /\ IF today \in DOMAIN plans
     THEN /\ plans' = Put(plans, today,
                [plans[today] EXCEPT
                   !.priorities = Filter(@, Range(@) \ {id}),
                   !.tasks = Filter(@, {t \in Range(@) : t.goalId # id})])
          /\ changed' = {"goals", "plans"}
     ELSE /\ plans' = plans
          /\ changed' = {"goals"}
  /\ UNCHANGED <<variant, auxUI, today, meta, lockUI>>
  /\ lastEdit' = 0
  /\ lastPass' = NoPass

\* updateGoalWeight(id, w): dailyWeight = clamp(Math.round(w), 1, 100)
weightAfter(w) == IF w = NaN THEN NaN ELSE clamp(w, 1, 100)

DynUpdateGoalWeight(id, w) ==
  /\ Dyn
  /\ id \in DOMAIN goals
  /\ goals' = [goals EXCEPT ![id].dailyWeight = weightAfter(w)]
  /\ changed' = {"goals"}
  /\ UNCHANGED <<variant, auxUI, today, plans, meta, lockUI>>
  /\ lastEdit' = 0
  /\ lastPass' = NoPass

DynAddTask(goalId) ==
  /\ Dyn
  /\ goalId \in DOMAIN goals
  /\ Cardinality(FreeIds) > Cardinality(planToday.postponeFlags)
  /\ plans' = addTaskTo(plans, today, goalId, uid)
  /\ changed' = {"plans"}
  /\ UNCHANGED <<variant, auxUI, today, goals, meta, lockUI>>
  /\ lastEdit' = goalId
  /\ lastPass' = NoPass

\* removeTask drops the task and its postpone flag
DynRemoveTask(taskId) ==
  /\ Dyn
  /\ \E t \in Range(planToday.tasks) : t.id = taskId /\ DynShown(t)
  /\ plans' = Put(plans, today,
        [plans[today] EXCEPT !.tasks = Filter(@, {t \in Range(@) : t.id # taskId}),
                             !.postponeFlags = @ \ {taskId}])
  /\ changed' = {"plans"}
  /\ UNCHANGED <<variant, auxUI, today, goals, meta, lockUI>>
  /\ lastEdit' = (CHOOSE t \in Range(planToday.tasks) : t.id = taskId).goalId
  /\ lastPass' = NoPass

DynIncTask(taskId, delta) ==
  /\ Dyn
  /\ \E t \in Range(planToday.tasks) : t.id = taskId /\ DynShown(t) /\ step(t.percent + delta) \in Percents
  /\ plans' = incTaskIn(plans, today, taskId, delta)
  /\ changed' = {"plans"}
  /\ UNCHANGED <<variant, auxUI, today, goals, meta, lockUI>>
  /\ lastEdit' = (CHOOSE t \in Range(planToday.tasks) : t.id = taskId).goalId
  /\ lastPass' = NoPass

DynSetQuick(taskId, v) ==
  /\ Dyn
  /\ \E t \in Range(planToday.tasks) : t.id = taskId /\ DynShown(t) /\ clamp(v, 0, 100) \in Percents
  /\ plans' = setQuickIn(plans, today, taskId, v)
  /\ changed' = {"plans"}
  /\ UNCHANGED <<variant, auxUI, today, goals, meta, lockUI>>
  /\ lastEdit' = (CHOOSE t \in Range(planToday.tasks) : t.id = taskId).goalId
  /\ lastPass' = NoPass

\* the "move to tomorrow?" checkbox of an incomplete task
DynSetPostponeFlag(taskId, flag) ==
  /\ Dyn
  /\ \E t \in Range(planToday.tasks) : t.id = taskId /\ t.percent < 100
  /\ (flag /\ taskId \notin planToday.postponeFlags)
       => Cardinality(FreeIds) > Cardinality(planToday.postponeFlags)
  /\ plans' = Put(plans, today,
        [planToday EXCEPT !.postponeFlags = IF flag THEN @ \cup {taskId} ELSE @ \ {taskId}])
  /\ changed' = {"plans"}
  /\ UNCHANGED <<variant, auxUI, today, goals, meta, lockUI>>
  /\ lastEdit' = 0
  /\ lastPass' = NoPass

(* --------------------- dynamic variant: effects ----------------------- *)
\* One render's effects, in source order: the auto-carry effect
\* (deps ready, plans, today), then the credit applier (deps ready, plans,
\* goals, today).  Both read the render's snapshot; their updaters are
\* applied in order.
DynEffects ==
  /\ variant \in {"dynamic", "panel"}
  /\ changed # {}
  /\ LET runCarry   == changed \cap {"ready", "plans", "today"} # {}
         carry      == runCarry /\ carryWrites(plans, today)
         cur        == planToday
         prevCredits == cur.credits
         nextCredits == nextCreditsOf(goals, cur)
         apply      == creditsChanged(prevCredits, nextCredits)
         plans1     == IF carry
                       THEN Put(plans, today, carriedPlan(plans, today, SetToSeq(FreeIds)))
                       ELSE plans
         plans2     == IF apply
                       THEN Put(plans1, today, creditedPlan(cur, nextCredits))
                       ELSE plans1
     IN /\ plans' = plans2
        /\ goals' = IF apply THEN applyCreditsToGoals(goals, prevCredits, nextCredits) ELSE goals
        /\ changed' = Deps(carry \/ apply, apply, FALSE)
        /\ lastPass' = IF apply
                       THEN [ran |-> TRUE, applied |-> TRUE, credits |-> prevCredits,
                             goals |-> goals, rolled |-> lastPass.rolled]
                       ELSE [ran |-> TRUE, applied |-> FALSE, credits |-> <<>>,
                             goals |-> <<>>, rolled |-> lastPass.rolled]
        /\ lastEdit' = IF carry \/ apply THEN lastEdit ELSE 0
  /\ UNCHANGED <<variant, auxUI, today, meta, lockUI>>

(* ------------------------- time and reloads --------------------------- *)
\* the component renders on a later calendar day: todayStr() moves on
\* the last day explored: the choice variant and the focus panel are
\* explored within one day
LastDay == IF variant \in {"choice", "focus", "load"} THEN today ELSE MaxDay

DayRollover ==
  /\ Settled
  /\ today < LastDay
  /\ today' = today + 1
  /\ changed' = IF variant = "entries" THEN {} ELSE {"today"}
  /\ UNCHANGED <<variant, auxUI, goals, plans, meta, lockUI>>
  /\ lastEdit' = 0
  /\ lastPass' = [NoPass EXCEPT !.rolled = TRUE]

NextDyn ==
  \/ DynAddGoal
  \/ \E id \in GoalIds : DynRemoveGoal(id)
  \/ \E id \in GoalIds, w \in Weights : DynUpdateGoalWeight(id, w)
  \/ \E g \in GoalIds : DynAddTask(g)
  \/ \E t \in TaskIds : DynRemoveTask(t)
  \/ \E t \in TaskIds, delta \in {-5, 5} : DynIncTask(t, delta)
  \/ \E t \in TaskIds, v \in QuickChoices : DynSetQuick(t, v)
  \/ \E t \in TaskIds, flag \in BOOLEAN : DynSetPostponeFlag(t, flag)
  \/ DynEffects
  \/ DayRollover

SpecDyn == InitDyn /\ [][NextDyn]_vars

(* ====================== lock variant (GoalApp.tsx:1-964) ============== *)
RECURSIVE trimStart(_)
trimStart(s) == IF s # <<>> /\ Head(s) = " " THEN trimStart(Tail(s)) ELSE s

RECURSIVE trimEnd(_)
trimEnd(s) == IF s # <<>> /\ s[Len(s)] = " " THEN trimEnd(SubSeq(s, 1, Len(s) - 1)) ELSE s

\* String.prototype.trim
trim(s) == trimEnd(trimStart(s))

\* tasks.some(t => t.percent < 100)
someIncomplete(tasks) == \E t \in Range(tasks) : t.percent < 100

hasIncomplete == someIncomplete(planToday.tasks)

\* a mutation of canClose: the reason is not asked for
canCloseNoReason == Len(planToday.tasks) > 0 /\ tried # ""

\* canClose = tasks.length > 0 && tried !== '' &&
\*            (!hasIncomplete || (whyNot && whyNot.trim().length > 0))
canClose ==
  /\ Len(planToday.tasks) > 0
  /\ tried # ""
  /\ (~hasIncomplete \/ (whyNot # <<>> /\ Len(trim(whyNot)) > 0))

\* CatchUpDialog: canSubmit = triedWell !== '' &&
\*                (!hasIncomplete || (why && why.trim().length > 0))
canSubmit ==
  /\ cuTried # ""
  /\ (~someIncomplete(catchTasks) \/ (cuWhy # <<>> /\ Len(trim(cuWhy)) > 0))

\* delta = Math.round((sum / (count * 100)) * weight); every weight of this
\* variant is 5, for which the double result is the exactly rounded one
closeDelta(tasks, weight) == Round(SumSeq(Percentages(tasks)) * weight, Len(tasks) * 100)

\* a mutation of closedProgress: the sum is not cut to 0..100
closedProgressUnclamped(g, list) ==
  IF list = <<>> THEN g.progress ELSE g.progress + closeDelta(list, g.dailyWeight)

\* next = clamp(g.progress + delta, 0, 100) for a goal with tasks today
\* (list: today's tasks of the goal); a goal without tasks is left alone
closedProgress(g, list) ==
  IF list = <<>> THEN g.progress
  ELSE clamp(g.progress + closeDelta(list, g.dailyWeight), 0, 100)

\* setGoals(prev => prev.map(...)) of closeDayAndUpdate
closedGoals(gs, tasks) ==
  [g \in DOMAIN gs |-> [gs[g] EXCEPT !.progress = closedProgress(gs[g], TasksOfGoal(tasks, g))]]

\* todayTasks.filter(t => t.percent < 100 && postponeMap[t.id])
postponedOf(tasks, flagged) ==
  Filter(tasks, {t \in Range(tasks) : t.percent < 100 /\ t.id \in flagged})

\* the plans closeDayAndUpdate stores: copies of the postponed tasks go to
\* tomorrow's plan at 0%, and today's plan is locked
closedPlans(p, day, flagged, free) ==
  LET cur        == PlanOf(p, day)
      incomplete == postponedOf(cur.tasks, flagged)
      tPlan      == PlanOf(p, day + 1)
      locked     == Put(p, day, [cur EXCEPT !.locked = TRUE])
  IN IF incomplete = <<>> THEN locked
     ELSE Put(locked, day + 1,
              [tPlan EXCEPT !.priorities = mergePriorities(tPlan.priorities, incomplete),
                            !.tasks = copiesOf(incomplete, free) \o tPlan.tasks])

\* nextMeta / the CatchUpDialog's onSubmit argument
metaOf(triedWell, why, incomplete) ==
  [triedWell |-> triedWell, whyNotComplete |-> IF incomplete THEN why ELSE <<>>,
   eodSubmitted |-> TRUE]

\* meta[d]?.eodSubmitted
submitted(m, d) == d \in DOMAIN m /\ m[d].eodSubmitted

\* the variants with a close-day step: GoalApp.tsx:1-964 ("lock") and
\* part_006:1461-2170 ("choice"), whose planner handlers, end-of-day inputs,
\* catch-up dialog and effects are the same code
LockVariants == {"lock", "choice"}

\* a modal dialog (catch-up, postpone) covers the page while it is open
Lock == variant \in LockVariants /\ Settled /\ ~catchOpen /\ ~postOpen

Editable == Lock /\ ~planToday.locked

LockAddGoal ==
  /\ Lock /\ variant = "lock"
  /\ FreeGoalIds # {}
  /\ LET id == CHOOSE x \in FreeGoalIds : \A y \in FreeGoalIds : x <= y
     IN goals' = Put(goals, id, [progress |-> NewProgress, dailyWeight |-> DefaultWeight])
  /\ changed' = {"goals"}
  /\ lastEdit' = 0
  /\ UNCHANGED <<variant, auxUI, today, plans, meta, lockUI, lastPass>>

\* (explored for goals that no plan refers to)
LockRemoveGoal(id) ==
  /\ Lock /\ variant = "lock"
  /\ id \in DOMAIN goals
  /\ id \notin ReferencedGoals
  /\ goals' = [g \in DOMAIN goals \ {id} |-> goals[g]]
  /\ changed' = {"goals"}
  /\ lastEdit' = 0
  /\ UNCHANGED <<variant, auxUI, today, plans, meta, lockUI, lastPass>>

\* the button of a goal that is not selected yet
LockAddPriority(goalId) ==
  /\ Editable
  /\ goalId \in DOMAIN goals
  /\ goalId \notin Range(planToday.priorities)
  /\ plans' = addPriorityTo(plans, today, goalId)
  /\ changed' = {"plans"}
  /\ lastEdit' = 0
  /\ UNCHANGED <<variant, auxUI, today, goals, meta, lockUI, lastPass>>

LockRemovePriority(goalId) ==
  /\ Editable
  /\ goalId \in DOMAIN goals
  /\ goalId \in Range(planToday.priorities)
  /\ plans' = removePriorityFrom(plans, today, goalId)
  /\ changed' = {"plans"}
  /\ lastEdit' = 0
  /\ UNCHANGED <<variant, auxUI, today, goals, meta, lockUI, lastPass>>

\* the updater returns prev when the priority cannot move
LockMovePriority(goalId, dir) ==
  /\ Editable
  /\ goalId \in DOMAIN goals
  /\ goalId \in Range(planToday.priorities)
  /\ movePriorityIn(plans, today, goalId, dir) # plans
  /\ plans' = movePriorityIn(plans, today, goalId, dir)
  /\ changed' = {"plans"}
  /\ lastEdit' = 0
  /\ UNCHANGED <<variant, auxUI, today, goals, meta, lockUI, lastPass>>

LockAddTask(goalId) ==
  /\ Editable
  /\ goalId \in DOMAIN goals
  /\ goalId \in Range(planToday.priorities)
  /\ Cardinality(FreeIds) > Cardinality(postponeMap)
  /\ plans' = addTaskTo(plans, today, goalId, uid)
  /\ changed' = {"plans"}
  /\ lastEdit' = goalId
  /\ UNCHANGED <<variant, auxUI, today, goals, meta, lockUI, lastPass>>

LockRemoveTask(taskId) ==
  /\ Editable
  /\ \E t \in Range(planToday.tasks) : t.id = taskId /\ Shown(t)
  /\ plans' = Put(plans, today,
        [plans[today] EXCEPT !.tasks = Filter(@, {t \in Range(@) : t.id # taskId})])
  /\ changed' = {"plans"}
  /\ lastEdit' = (CHOOSE t \in Range(planToday.tasks) : t.id = taskId).goalId
  /\ UNCHANGED <<variant, auxUI, today, goals, meta, lockUI, lastPass>>

LockIncTask(taskId, delta) ==
  /\ Editable /\ variant = "lock"
  /\ \E t \in Range(planToday.tasks) :
       t.id = taskId /\ Shown(t) /\ step(t.percent + delta) \in LockPercents
  /\ plans' = incTaskIn(plans, today, taskId, delta)
  /\ changed' = {"plans"}
  /\ lastEdit' = (CHOOSE t \in Range(planToday.tasks) : t.id = taskId).goalId
  /\ UNCHANGED <<variant, auxUI, today, goals, meta, lockUI, lastPass>>

LockSetQuick(taskId, v) ==
  /\ Editable /\ variant = "lock"
  /\ \E t \in Range(planToday.tasks) :
       t.id = taskId /\ Shown(t) /\ clamp(v, 0, 100) \in LockPercents
  /\ plans' = setQuickIn(plans, today, taskId, v)
  /\ changed' = {"plans"}
  /\ lastEdit' = (CHOOSE t \in Range(planToday.tasks) : t.id = taskId).goalId
  /\ UNCHANGED <<variant, auxUI, today, goals, meta, lockUI, lastPass>>

(* end-of-day inputs: none of them is a dependency of an effect; an input
   that sets the value it already has changes nothing and is left out *)
SetTried(k) ==
  /\ Lock
  /\ k # tried
  /\ tried' = k
  /\ UNCHANGED <<variant, auxUI, today, goals, plans, meta, changed, whyNot, postponeMap,
                 catchOpen, catchDate, catchTasks, cuTried, cuWhy, lastEdit, lastPass, closes, entUI>>

SetWhyNot(w) ==
  /\ Lock
  /\ w # whyNot
  /\ whyNot' = w
  /\ UNCHANGED <<variant, auxUI, today, goals, plans, meta, changed, tried, postponeMap,
                 catchOpen, catchDate, catchTasks, cuTried, cuWhy, lastEdit, lastPass, closes, entUI>>

\* the "move to tomorrow?" checkbox of an incomplete task
SetPostpone(taskId, checked) ==
  /\ Lock /\ variant = "lock"
  /\ \E t \in Range(planToday.tasks) : t.id = taskId /\ t.percent < 100
  /\ checked # (taskId \in postponeMap)
  /\ checked => Cardinality(FreeIds) > Cardinality(postponeMap)
  /\ postponeMap' = IF checked THEN postponeMap \cup {taskId} ELSE postponeMap \ {taskId}
  /\ UNCHANGED <<variant, auxUI, today, goals, plans, meta, changed, tried, whyNot,
                 catchOpen, catchDate, catchTasks, cuTried, cuWhy, lastEdit, lastPass, closes, entUI>>

\* closeDayAndUpdate: returns at once unless canClose
LockCloseDay ==
  /\ Lock /\ variant = "lock"
  /\ canClose
  /\ closes < MaxCloses
  /\ goals' = closedGoals(goals, planToday.tasks)
  /\ plans' = closedPlans(plans, today, postponeMap, SetToSeq(FreeIds))
  /\ meta' = Put(meta, today, metaOf(tried, whyNot, hasIncomplete))
  /\ tried' = ""
  /\ whyNot' = <<>>
  /\ postponeMap' = {}
  /\ changed' = {"goals", "plans", "meta"}
  /\ closes' = closes + 1
  /\ lastEdit' = 0
  /\ UNCHANGED <<variant, auxUI, today, catchOpen, catchDate, catchTasks, cuTried, cuWhy, lastPass, entUI>>

(* the catch-up dialog; its inputs keep their values when it closes *)
CuSetTried(k) ==
  /\ variant \in LockVariants /\ Settled /\ catchOpen
  /\ k # cuTried
  /\ cuTried' = k
  /\ UNCHANGED <<variant, auxUI, today, goals, plans, meta, changed, tried, whyNot, postponeMap,
                 catchOpen, catchDate, catchTasks, cuWhy, lastEdit, lastPass, closes, entUI>>

\* the reason field is rendered when a task of the day is incomplete
CuSetWhy(w) ==
  /\ variant \in LockVariants /\ Settled /\ catchOpen
  /\ someIncomplete(catchTasks)
  /\ w # cuWhy
  /\ cuWhy' = w
  /\ UNCHANGED <<variant, auxUI, today, goals, plans, meta, changed, tried, whyNot, postponeMap,
                 catchOpen, catchDate, catchTasks, cuTried, lastEdit, lastPass, closes, entUI>>

\* onClose: the dialog is dismissed (Escape, click outside, close button)
CuClose ==
  /\ variant \in LockVariants /\ Settled /\ catchOpen
  /\ catchOpen' = FALSE
  /\ UNCHANGED <<variant, auxUI, today, goals, plans, meta, changed, tried, whyNot, postponeMap,
                 catchDate, catchTasks, cuTried, cuWhy, lastEdit, lastPass, closes, entUI>>

\* a mutation of catchUpPlans: the day is not locked
catchUpPlansUnlocked(p, d) == p

\* setPlans(p => ({ ...p, [catchDate]: { ...(p[catchDate] || empty), locked: true } }))
catchUpPlans(p, d) == Put(p, d, [PlanOf(p, d) EXCEPT !.locked = TRUE])

\* onSubmit: the button is disabled unless canSubmit
CuSubmit ==
  /\ variant \in LockVariants /\ Settled /\ catchOpen
  /\ canSubmit
  /\ meta' = Put(meta, catchDate, metaOf(cuTried, cuWhy, someIncomplete(catchTasks)))
  /\ plans' = catchUpPlans(plans, catchDate)
  /\ catchOpen' = FALSE
  /\ changed' = {"meta", "plans"}
  /\ UNCHANGED <<variant, auxUI, today, goals, tried, whyNot, postponeMap,
                 catchDate, catchTasks, cuTried, cuWhy, lastEdit, lastPass, closes, entUI>>

\* One render's effects, in source order: the catch-up effect (deps ready,
\* plans, meta), then the effect that hydrates the end-of-day inputs from
\* meta[today] (deps ready, meta, today).
LockEffects ==
  /\ variant \in LockVariants
  /\ changed # {}
  /\ LET y        == today - 1
         runCatch == changed \cap {"ready", "plans", "meta"} # {}
         open     == runCatch /\ y \in DOMAIN plans /\ ~submitted(meta, y)
         hydrate  == changed \cap {"ready", "meta", "today"} # {} /\ today \in DOMAIN meta
     IN /\ catchDate' = IF open THEN y ELSE catchDate
        /\ catchTasks' = IF open THEN plans[y].tasks ELSE catchTasks
        /\ catchOpen' = IF open THEN TRUE ELSE catchOpen
        /\ tried' = IF hydrate THEN meta[today].triedWell ELSE tried
        /\ whyNot' = IF hydrate THEN meta[today].whyNotComplete ELSE whyNot
  /\ changed' = {}
  /\ lastEdit' = 0
  /\ UNCHANGED <<variant, auxUI, today, goals, plans, meta, postponeMap, cuTried, cuWhy, lastPass, closes, entUI>>

\* the page is loaded again: component state starts over, the stored goals,
\* plans and meta are read back, and (lock variant) setReady(true) runs
\* every effect; the entries variant has no effect besides load and save
Reload ==
  /\ variant \in {"lock", "choice", "entries"}
  /\ Settled
  /\ changed' = IF variant = "entries" THEN {} ELSE {"ready"}
  /\ tried' = ""
  /\ whyNot' = <<>>
  /\ postponeMap' = {}
  /\ catchOpen' = FALSE
  /\ catchDate' = NoDay
  /\ catchTasks' = <<>>
  /\ cuTried' = ""
  /\ cuWhy' = <<>>
  /\ taskOpen' = FALSE
  /\ taskGoalId' = NoGoal
  /\ taskDate' = NoDay
  /\ reflectOpen' = FALSE
  /\ reflectGoalId' = NoGoal
  /\ reflectDate' = NoDay
  /\ postOpen' = FALSE
  /\ postTask' = NoTask
  /\ lastEdit' = 0
  /\ UNCHANGED <<variant, focusUI, loadUI, cloudUI, today, goals, plans, meta, lastPass, closes>>

InitLock ==
  /\ variant = "lock"
  /\ \E p \in StoredProgress :
       goals = [g \in {SeedGoal} |-> [progress |-> p, dailyWeight |-> DefaultWeight]]
  /\ InitShared

NextLock ==
  \/ LockAddGoal
  \/ \E id \in GoalIds : LockRemoveGoal(id)
  \/ \E g \in GoalIds : LockAddPriority(g)
  \/ \E g \in GoalIds : LockRemovePriority(g)
  \/ \E g \in GoalIds, dir \in {"up", "down"} : LockMovePriority(g, dir)
  \/ \E g \in GoalIds : LockAddTask(g)
  \/ \E t \in TaskIds : LockRemoveTask(t)
  \/ \E t \in TaskIds, delta \in {-5, 5} : LockIncTask(t, delta)
  \/ \E t \in TaskIds, v \in QuickChoices : LockSetQuick(t, v)
  \/ \E k \in TriedChoices : SetTried(k)
  \/ \E w \in DayWhyTexts : SetWhyNot(w)
  \/ \E t \in TaskIds, checked \in BOOLEAN : SetPostpone(t, checked)
  \/ LockCloseDay
  \/ \E k \in TriedChoices : CuSetTried(k)
  \/ \E w \in WhyTexts : CuSetWhy(w)
  \/ CuClose
  \/ CuSubmit
  \/ LockEffects
  \/ Reload
  \/ DayRollover

SpecLock == InitLock /\ [][NextLock]_vars

(* ================= choice variant (unnamed/part_006:1461-2170) ========= *)
\* PCT = [0, 5, 20, 50, 100]
PCT == {0, 5, 20, 50, 100}

\* the two seed goals: progress 10 and 25, dailyWeight 5
choiceSeedGoals ==
  [g \in {1, 2} |-> [progress |-> IF g = 1 THEN 10 ELSE 25, dailyWeight |-> DefaultWeight]]

\* { ...t, postponed: true, postponeReason: reason, postponeConsequence: consequence }
postponedTask(t, reason, consequence) ==
  [x \in DOMAIN t \cup {"postponed", "postponeReason", "postponeConsequence"} |->
     IF x = "postponed" THEN TRUE
     ELSE IF x = "postponeReason" THEN reason
     ELSE IF x = "postponeConsequence" THEN consequence
     ELSE t[x]]

\* setTaskPercent: returns at once when today's plan is locked
ChSetTaskPercent(taskId, v) ==
  /\ Editable /\ variant = "choice"
  /\ \E t \in Range(planToday.tasks) : t.id = taskId /\ Shown(t)
  /\ plans' = Put(plans, today, [plans[today] EXCEPT !.tasks = withPercent(@, taskId, v)])
  /\ changed' = {"plans"}
  /\ lastEdit' = (CHOOSE t \in Range(planToday.tasks) : t.id = taskId).goalId
  /\ UNCHANGED <<variant, auxUI, today, goals, meta, lockUI, lastPass>>

\* openPostpone: the Postpone button of a task row (rendered, and enabled,
\* whether or not the plan is locked)
ChOpenPostpone(taskId) ==
  /\ Lock /\ variant = "choice"
  /\ \E t \in Range(planToday.tasks) : t.id = taskId /\ Shown(t)
  /\ postTask' = taskId
  /\ postOpen' = TRUE
  /\ UNCHANGED <<variant, focusUI, loadUI, cloudUI, today, goals, plans, meta, changed, lockUI, lastEdit, lastPass>>

\* "Confirm postpone": savePostpone, then the dialog closes; savePostpone has
\* no check of planToday.locked
ChSavePostpone(reason, consequence) ==
  /\ variant = "choice" /\ Settled /\ postOpen
  /\ postTask # NoTask
  /\ IF today \in DOMAIN plans
     THEN /\ plans' = Put(plans, today,
                [plans[today] EXCEPT !.tasks =
                   [i \in 1..Len(@) |-> IF @[i].id = postTask
                                        THEN postponedTask(@[i], reason, consequence)
                                        ELSE @[i]]])
          /\ changed' = {"plans"}
     ELSE UNCHANGED <<plans, changed>>
  /\ postOpen' = FALSE
  /\ lastEdit' = 0
  /\ UNCHANGED <<variant, focusUI, loadUI, cloudUI, today, goals, meta, lockUI, lastPass, postTask>>

\* Cancel, Escape or a click outside: onOpenChange(false)
ChCancelPostpone ==
  /\ variant = "choice" /\ Settled /\ postOpen
  /\ postOpen' = FALSE
  /\ UNCHANGED <<variant, focusUI, loadUI, cloudUI, today, goals, plans, meta, changed, lockUI, lastEdit, lastPass, postTask>>

\* closeDayAndUpdate of the choice variant: the rollup, the meta, then
\* setPlans(p => ({ ...p, [today]: { ...planToday, locked: true } }))
ChCloseDay ==
  /\ Lock /\ variant = "choice"
  /\ canClose
  /\ closes < MaxCloses
  /\ goals' = closedGoals(goals, planToday.tasks)
  /\ plans' = Put(plans, today, [planToday EXCEPT !.locked = TRUE])
  /\ meta' = Put(meta, today, metaOf(tried, whyNot, hasIncomplete))
  /\ tried' = ""
  /\ whyNot' = <<>>
  /\ changed' = {"goals", "plans", "meta"}
  /\ closes' = closes + 1
  /\ lastEdit' = 0
  /\ UNCHANGED <<variant, auxUI, today, postponeMap, catchOpen, catchDate, catchTasks,
                 cuTried, cuWhy, lastPass, entUI>>

\* The choice family is explored within one day: the day change and the
\* catch-up dialog, the same code as in the lock variant, are explored there.
InitChoice == variant = "choice" /\ goals = choiceSeedGoals /\ InitShared

NextChoice ==
  \/ \E g \in GoalIds : LockAddPriority(g)
  \/ \E g \in GoalIds : LockRemovePriority(g)
  \/ \E g \in GoalIds, dir \in {"up", "down"} : LockMovePriority(g, dir)
  \/ \E g \in GoalIds : LockAddTask(g)
  \/ \E t \in TaskIds : LockRemoveTask(t)
  \/ \E t \in TaskIds, v \in ChoicePercents : ChSetTaskPercent(t, v)
  \/ \E t \in TaskIds : ChOpenPostpone(t)
  \/ \E r \in PostTexts, c \in PostTexts : ChSavePostpone(r, c)
  \/ ChCancelPostpone
  \/ \E k \in TriedChoices : SetTried(k)
  \/ \E w \in WhyTexts : SetWhyNot(w)
  \/ ChCloseDay
  \/ LockEffects
  \/ Reload

SpecChoice == InitChoice /\ [][NextChoice]_vars

(* ================ focus panel (unnamed/part_006:242-464) =============== *)
\* first check-in 15 min after the start, then 15 min after each
\* acknowledgement; 60 s of grace; sessions last at least 30 min
AckEvery == 15 * 60
Grace == 60
durationMin == 30

\* what the components of the page other than the focus panel hold
focusFrame == <<variant, today, goals, plans, meta, changed, lockUI, lastEdit, lastPass, choiceUI, loadUI, cloudUI>>

\* recordSession(status): the focusedCount and the session log after it
recordedCount(status) ==
  IF status = "completed" THEN focusedCount + 1
  ELSE IF status = "failed" THEN 0
  ELSE focusedCount

recordedSessions(status) ==
  IF status = "failed" THEN <<>> ELSE <<status>> \o focusedSessions

\* stopTimer(status): clears the interval and the session state, then
\* records the session
stopTimer(status) ==
  /\ tickRef' = FALSE
  /\ running' = FALSE
  /\ needsAck' = FALSE
  /\ ackDeadline' = None
  /\ nextAckAt' = None
  /\ startTimeRef' = None
  /\ remainingSec' = 0
  /\ promptedAt' = promptedAt
  /\ focusedCount' = recordedCount(status)
  /\ focusedSessions' = recordedSessions(status)

\* startTimer: the Start button is rendered while running is false.  The
\* interval callback it creates closes over the running and needsAck of the
\* render in which the button was pressed.
startTimer ==
  /\ variant = "focus"
  /\ ~running
  /\ starts < MaxStarts
  /\ startTimeRef' = now
  /\ remainingSec' = Max(30, durationMin) * 60
  /\ running' = TRUE
  /\ needsAck' = FALSE
  /\ ackDeadline' = None
  /\ nextAckAt' = now + AckEvery
  /\ tickRef' = TRUE
  /\ cbRunning' = running
  /\ cbNeedsAck' = needsAck
  /\ promptedAt' = None
  /\ starts' = starts + 1
  /\ UNCHANGED <<now, focusedCount, focusedSessions, focusFrame>>

\* one run of the interval callback, a second after the previous one:
\*   remainingSec goes down by one (not below 0);
\*   if (t >= nextAckAt && !needsAck) the prompt is raised, deadline t + 60 s;
\*   if (ackDeadline && needsAck && t > ackDeadline) stopTimer('failed');
\*   if (remainingSec <= 1 && running) stopTimer('completed'), or 'failed'
\*     while a prompt is pending;
\* where running and needsAck are the values the callback closed over
FocusTick ==
  /\ variant = "focus"
  /\ tickRef
  /\ now < MaxNow
  /\ now' = now + 1
  /\ LET t       == now + 1
         val     == Max(remainingSec - 1, 0)
         raise   == nextAckAt # None /\ t >= nextAckAt /\ ~cbNeedsAck
         missed  == ackDeadline # None /\ cbNeedsAck /\ t > ackDeadline
         finish  == val <= 1 /\ cbRunning
     IN IF missed
        THEN stopTimer("failed")
        ELSE IF finish
        THEN stopTimer(IF cbNeedsAck THEN "failed" ELSE "completed")
        ELSE /\ remainingSec' = val
             /\ needsAck' = (needsAck \/ raise)
             /\ ackDeadline' = IF raise THEN t + Grace ELSE ackDeadline
             /\ promptedAt' = IF raise /\ ~needsAck THEN t ELSE promptedAt
             /\ UNCHANGED <<running, nextAckAt, tickRef, startTimeRef,
                            focusedCount, focusedSessions>>
  /\ UNCHANGED <<cbRunning, cbNeedsAck, starts, focusFrame>>

\* acknowledge: the button of the prompt
acknowledge ==
  /\ variant = "focus"
  /\ running
  /\ needsAck
  /\ promptedAt # None /\ now - promptedAt \in AckDelays
  /\ needsAck' = FALSE
  /\ ackDeadline' = None
  /\ nextAckAt' = now + AckEvery
  /\ promptedAt' = None
  /\ UNCHANGED <<running, remainingSec, tickRef, startTimeRef, now, cbRunning, cbNeedsAck,
                 starts, focusedCount, focusedSessions, focusFrame>>

\* cancel: the Cancel button of a running session
cancel ==
  /\ variant = "focus"
  /\ running
  /\ stopTimer("canceled")
  /\ UNCHANGED <<now, cbRunning, cbNeedsAck, starts, focusFrame>>

InitFocus == variant = "focus" /\ goals = seedGoals /\ InitShared

NextFocus ==
  \/ startTimer
  \/ FocusTick
  \/ acknowledge
  \/ cancel

SpecFocus == InitFocus /\ [][NextFocus]_vars

\* setInterval keeps running the callback every second until clearInterval
SpecFocusFair == SpecFocus /\ WF_vars(FocusTick)

(* =================== entries variant (unnamed/part_007) ================ *)
\* progress is a fraction here (a mean that is not rounded): the model
\* stores it multiplied by EntryScale, a multiple of every entry length
RECURSIVE Factorial(_)
Factorial(n) == IF n <= 1 THEN 1 ELSE n * Factorial(n - 1)

EntryScale == Factorial(MaxEntryTasks)

\* calculateCumulative(tasks) = sum / length (0 for no task), times EntryScale
calculateCumulative(tasks) ==
  IF tasks = <<>> THEN 0 ELSE (SumSeq(tasks) * EntryScale) \div Len(tasks)

\* newProgress = Math.min(100, goal.progress + cumulative)
reflectedProgress(progress, tasks) ==
  Min(100 * EntryScale, progress + calculateCumulative(tasks))

sampleGoals == [g \in {1, 2} |-> [progress |-> 0, dailyEntries |-> <<>>]]

\* metaByDay[today] || { date: today, priorities: [] }
todayPriorities == IF today \in DOMAIN meta THEN meta[today].priorities ELSE <<>>

hasEntry(g, d) == g \in DOMAIN goals /\ d \in DOMAIN goals[g].dailyEntries

\* goals.filter(g => g.progress < 100)
Visible(g) == g \in DOMAIN goals /\ goals[g].progress < 100 * EntryScale

\* the dialogs are modal: the cards are used while none is open
EntIdle == variant = "entries" /\ ~taskOpen /\ ~reflectOpen

\* updateGoal({ id, dailyEntries: { ...goal.dailyEntries, [d]: entry } })
withEntry(gs, g, d, entry) == [gs EXCEPT ![g].dailyEntries = Put(@, d, entry)]

\* togglePriority: at most 3 priorities
EntTogglePriority(g) ==
  /\ EntIdle
  /\ Visible(g)
  /\ LET cur  == todayPriorities
         next == IF g \in Range(cur) THEN Filter(cur, Range(cur) \ {g})
                 ELSE SubSeq(Append(cur, g), 1, Min(3, Len(cur) + 1))
     IN meta' = Put(meta, today, [priorities |-> next])
  /\ UNCHANGED <<variant, auxUI, today, goals, plans, changed, lockUI, lastEdit, lastPass>>

\* "Set today's tasks" of a priority card without tasks today
EntSetTasksClick(g) ==
  /\ EntIdle
  /\ Visible(g)
  /\ g \in Range(todayPriorities)
  /\ ~(hasEntry(g, today) /\ goals[g].dailyEntries[today].tasks # <<>>)
  /\ IF hasEntry(g, today - 1) /\ ~goals[g].dailyEntries[today - 1].reflected
     THEN /\ reflectGoalId' = g
          /\ reflectDate' = today - 1
          /\ reflectOpen' = TRUE
          /\ UNCHANGED <<taskGoalId, taskDate, taskOpen>>
     ELSE /\ taskGoalId' = g
          /\ taskDate' = today
          /\ taskOpen' = TRUE
          /\ UNCHANGED <<reflectGoalId, reflectDate, reflectOpen>>
  /\ UNCHANGED <<variant, auxUI, today, goals, plans, meta, changed, lastEdit, lastPass,
                 tried, whyNot, postponeMap, catchOpen, catchDate, catchTasks, cuTried, cuWhy, closes>>

\* TaskSetModal "Set Tasks" with n titles, then handleSetTasksSave
EntSetTasksSave(n) ==
  /\ variant = "entries"
  /\ taskOpen
  /\ goals' = IF taskGoalId \in DOMAIN goals
              THEN withEntry(goals, taskGoalId, taskDate,
                             [tasks |-> [i \in 1..n |-> 0], reflected |-> FALSE])
              ELSE goals
  /\ taskOpen' = FALSE
  /\ UNCHANGED <<variant, auxUI, today, plans, meta, changed, lastEdit, lastPass,
                 tried, whyNot, postponeMap, catchOpen, catchDate, catchTasks, cuTried, cuWhy, closes,
                 taskGoalId, taskDate, reflectOpen, reflectGoalId, reflectDate>>

EntSetTasksCancel ==
  /\ variant = "entries"
  /\ taskOpen
  /\ taskOpen' = FALSE
  /\ UNCHANGED <<variant, auxUI, today, goals, plans, meta, changed, lastEdit, lastPass,
                 tried, whyNot, postponeMap, catchOpen, catchDate, catchTasks, cuTried, cuWhy, closes,
                 taskGoalId, taskDate, reflectOpen, reflectGoalId, reflectDate>>

\* goals.find(g => g.id === reflectGoalId || g.id === taskGoalId): the first
\* goal of the list that matches
openGoal ==
  LET hits == {g \in DOMAIN goals : g = reflectGoalId \/ g = taskGoalId}
  IN IF hits = {} THEN NoGoal ELSE CHOOSE g \in hits : \A h \in hits : g <= h

\* a progress button of task `index` on the card of goal `card`
EntUpdateTask(card, index, p) ==
  /\ EntIdle
  /\ Visible(card)
  /\ card \in Range(todayPriorities)
  /\ hasEntry(card, today)
  /\ index \in 1..Len(goals[card].dailyEntries[today].tasks)
  /\ LET g == openGoal
     IN goals' = IF /\ g # NoGoal
                    /\ g \in Range(todayPriorities)
                    /\ hasEntry(g, today)
                    /\ index <= Len(goals[g].dailyEntries[today].tasks)
                 THEN withEntry(goals, g, today,
                        [goals[g].dailyEntries[today] EXCEPT !.tasks[index] = p])
                 ELSE goals
  /\ UNCHANGED <<variant, auxUI, today, plans, meta, changed, lockUI, lastEdit, lastPass>>

\* "Reflect & Complete" of a priority card whose entry has no reflection
EntReflectClick(card) ==
  /\ EntIdle
  /\ Visible(card)
  /\ card \in Range(todayPriorities)
  /\ ~(hasEntry(card, today) /\ goals[card].dailyEntries[today].reflected)
  /\ reflectDate' = today
  /\ reflectOpen' = TRUE
  /\ UNCHANGED <<variant, auxUI, today, goals, plans, meta, changed, lastEdit, lastPass,
                 tried, whyNot, postponeMap, catchOpen, catchDate, catchTasks, cuTried, cuWhy, closes,
                 taskOpen, taskGoalId, taskDate, reflectGoalId>>

\* ReflectModal "Complete & Save", then handleReflectSave
EntReflectSave ==
  /\ variant = "entries"
  /\ reflectOpen
  /\ goals' = IF hasEntry(reflectGoalId, reflectDate)
              THEN LET entry == goals[reflectGoalId].dailyEntries[reflectDate]
                   IN [withEntry(goals, reflectGoalId, reflectDate,
                                 [entry EXCEPT !.reflected = TRUE])
                         EXCEPT ![reflectGoalId].progress = reflectedProgress(@, entry.tasks)]
              ELSE goals
  /\ reflectOpen' = FALSE
  /\ UNCHANGED <<variant, auxUI, today, plans, meta, changed, lastEdit, lastPass,
                 tried, whyNot, postponeMap, catchOpen, catchDate, catchTasks, cuTried, cuWhy, closes,
                 taskOpen, taskGoalId, taskDate, reflectGoalId, reflectDate>>

EntReflectCancel ==
  /\ variant = "entries"
  /\ reflectOpen
  /\ reflectOpen' = FALSE
  /\ UNCHANGED <<variant, auxUI, today, goals, plans, meta, changed, lastEdit, lastPass,
                 tried, whyNot, postponeMap, catchOpen, catchDate, catchTasks, cuTried, cuWhy, closes,
                 taskOpen, taskGoalId, taskDate, reflectGoalId, reflectDate>>

\* the mount effect has loaded the sample goals and an empty metaByDay
InitEntries ==
  /\ variant = "entries"
  /\ goals = sampleGoals
  /\ InitShared

NextEntries ==
  \/ \E g \in GoalIds : EntTogglePriority(g)
  \/ \E g \in GoalIds : EntSetTasksClick(g)
  \/ \E n \in 1..MaxEntryTasks : EntSetTasksSave(n)
  \/ EntSetTasksCancel
  \/ \E g \in GoalIds, i \in 1..MaxEntryTasks, p \in EntryChoices : EntUpdateTask(g, i, p)
  \/ \E g \in GoalIds : EntReflectClick(g)
  \/ EntReflectSave
  \/ EntReflectCancel
  \/ Reload
  \/ DayRollover

SpecEntries == InitEntries /\ [][NextEntries]_vars

(* ======== goal panel of the dynamic variant (GoalApp.tsx:1636-1722) ==== *)
\* The long-term goals card with its deadline helper and weight buttons,
\* explored on the goal list alone (no task is planned).  A goal carries
\* its targetDate here; dates are day numbers and NoDate is the empty
\* string an `<input type="date">` yields when it is cleared.
NoDate == NoDay
TargetDates == {NoDate} \cup 1..MaxTarget
\* seed goal: targetDate 60 days after the first day
SeedTarget == 61
\* "simple heuristic for suggestion": typical = 70
Typical == 70

\* Math.ceil(n / d) for d > 0
Ceil(n, d) == -((-n) \div d)

\* Math.floor((a.getTime() - b.getTime()) / (1000 * 60 * 60 * 24)): NaN
\* when one of the dates is invalid
dayDiff(a, b) == IF a = NoDate \/ b = NoDate THEN NaN ELSE a - b

\* diff < 0 ? 0 : diff + 1  (NaN < 0 is false and NaN + 1 is NaN)
daysLeftInclusive(fromISO, toISO) ==
  LET diff == dayDiff(toISO, fromISO)
  IN IF diff = NaN THEN NaN ELSE IF diff < 0 THEN 0 ELSE diff + 1

\* diff > 0 ? diff : 0  (NaN > 0 is false)
daysOverdue(fromISO, toISO) ==
  LET diff == dayDiff(fromISO, toISO)
  IN IF diff # NaN /\ diff > 0 THEN diff ELSE 0

\* suggestedWeightToHit(remainingPct, daysLeft, expectedAvgPct); the
\* comparisons with NaN are false, Math.ceil and clamp of NaN are NaN.
\* (remainingPct * 100 is never a multiple of daysLeft * 70 for the goals
\* explored, so the double division rounds up as the exact one does.)
suggestedWeightToHit(remainingPct, daysLeft, expectedAvgPct) ==
  IF remainingPct <= 0 THEN 5
  ELSE IF expectedAvgPct <= 0 \/ (daysLeft # NaN /\ daysLeft <= 0) THEN 5
  ELSE IF daysLeft = NaN THEN NaN
  ELSE clamp(Ceil(remainingPct * 100, daysLeft * expectedAvgPct), 1, 100)

\* remaining = clamp(100 - g.progress, 0, 100)
remainingOf(g) == clamp(100 - g.progress, 0, 100)

\* suggestedW of a goal card
suggestedW(g) ==
  suggestedWeightToHit(remainingOf(g), daysLeftInclusive(today, g.targetDate), Typical)

\* Math.max(1, (g.dailyWeight ?? 5) - 5) and Math.min(100, (g.dailyWeight ?? 5) + 5)
weightDownArg(w) == IF w = NaN THEN NaN ELSE Max(1, w - 5)
weightUpArg(w) == IF w = NaN THEN NaN ELSE Min(100, w + 5)

Panel == variant = "panel" /\ Settled

panelSeedGoals ==
  [g \in {SeedGoal} |->
     [progress |-> SeedProgress, dailyWeight |-> DefaultWeight, targetDate |-> SeedTarget]]

\* AddGoalDialog submit: only the title is validated
PanelAddGoal(targetDate) ==
  /\ Panel
  /\ FreeGoalIds # {}
  /\ LET id == CHOOSE x \in FreeGoalIds : \A y \in FreeGoalIds : x <= y
     IN goals' = Put(goals, id, [progress |-> NewProgress, dailyWeight |-> DefaultWeight,
                                 targetDate |-> targetDate])
  /\ changed' = {"goals"}
  /\ UNCHANGED <<variant, auxUI, today, plans, meta, lockUI>>
  /\ lastEdit' = 0
  /\ lastPass' = NoPass

\* removeGoal (today has no plan here)
PanelRemoveGoal(id) ==
  /\ Panel
  /\ id \in DOMAIN goals
  /\ goals' = [g \in DOMAIN goals \ {id} |-> goals[g]]
  /\ changed' = {"goals"}
  /\ UNCHANGED <<variant, auxUI, today, plans, meta, lockUI>>
  /\ lastEdit' = 0
  /\ lastPass' = NoPass

\* updateGoalWeight(id, w) called from the goal card
panelUpdateGoalWeight(id, w) ==
  /\ goals' = [goals EXCEPT ![id].dailyWeight = weightAfter(w)]
  /\ changed' = {"goals"}
  /\ UNCHANGED <<variant, auxUI, today, plans, meta, lockUI>>
  /\ lastEdit' = 0
  /\ lastPass' = NoPass

\* the "-5% weight" button
WeightDown(id) ==
  /\ Panel
  /\ id \in DOMAIN goals
  /\ panelUpdateGoalWeight(id, weightDownArg(goals[id].dailyWeight))

\* the "+5% weight" button
WeightUp(id) ==
  /\ Panel
  /\ id \in DOMAIN goals
  /\ panelUpdateGoalWeight(id, weightUpArg(goals[id].dailyWeight))

\* the "Apply" button of the deadline helper, rendered unless the goal is
\* complete (remaining <= 0) or past its deadline (overdue > 0)
ApplySuggested(id) ==
  /\ Panel
  /\ id \in DOMAIN goals
  /\ remainingOf(goals[id]) > 0
  /\ daysOverdue(today, goals[id].targetDate) = 0
  /\ panelUpdateGoalWeight(id, suggestedW(goals[id]))

InitPanel == variant = "panel" /\ goals = panelSeedGoals /\ InitShared

NextPanel ==
  \/ \E d \in TargetDates : PanelAddGoal(d)
  \/ \E id \in GoalIds : PanelRemoveGoal(id)
  \/ \E id \in GoalIds : WeightDown(id)
  \/ \E id \in GoalIds : WeightUp(id)
  \/ \E id \in GoalIds : ApplySuggested(id)
  \/ DynEffects
  \/ DayRollover

SpecPanel == InitPanel /\ [][NextPanel]_vars

(* ============ load(key, fallback) (GoalApp.tsx:109-111) =============== *)
\* const load = (key, fallback) => {
\*   try { const raw = localStorage.getItem(key);
\*         return raw ? JSON.parse(raw) : fallback; } catch { return fallback; } };
\* loadGoals and loadMeta of part_007 (L93-112) are the same function with
\* the key and the fallback fixed.
\*
\* Stored strings are sequences over a small alphabet: the digit 1, the
\* brackets, the blank and a letter.  The JSON texts over it are the
\* numbers 1, 11, ..., and the arrays with no or one element, with blanks
\* around any of them.
Keys == {"goals", "plans", "meta"}
Chars == {"1", "[", "]", " ", "x"}

RawsUpTo(n) == UNION {[1..k -> Chars] : k \in 0..n}

\* JSON values: a number, or an array of values
numValue(k) == [t |-> "num", n |-> k, items |-> <<>>]
arrValue(vs) == [t |-> "arr", n |-> 0, items |-> vs]
\* the fallbacks: the seed goals for the goals key, {} for plans and meta
fallbackOf(key) ==
  [t |-> IF key = "goals" THEN "seedGoals" ELSE "emptyMap", n |-> 0, items |-> <<>>]

RECURSIVE trimLeft(_)
trimLeft(s) == IF s # <<>> /\ Head(s) = " " THEN trimLeft(Tail(s)) ELSE s

RECURSIVE trimRight(_)
trimRight(s) ==
  IF s # <<>> /\ s[Len(s)] = " " THEN trimRight(SubSeq(s, 1, Len(s) - 1)) ELSE s

\* JSON whitespace around a value is skipped
trimWs(s) == trimRight(trimLeft(s))

isNumber(s) == s # <<>> /\ \A i \in 1..Len(s) : s[i] = "1"

RECURSIVE numberOf(_)
numberOf(s) == IF s = <<>> THEN 0 ELSE 10 * numberOf(SubSeq(s, 1, Len(s) - 1)) + 1

isArray(s) == Len(s) >= 2 /\ s[1] = "[" /\ s[Len(s)] = "]"

inner(s) == trimWs(SubSeq(s, 2, Len(s) - 1))

\* JSON.parse(raw) does not throw a SyntaxError
RECURSIVE isJSON(_)
isJSON(raw) ==
  LET s == trimWs(raw)
  IN \/ isNumber(s)
     \/ isArray(s) /\ (inner(s) = <<>> \/ isJSON(inner(s)))

\* the value JSON.parse(raw) returns when it does not throw
RECURSIVE parsed(_)
parsed(raw) ==
  LET s == trimWs(raw)
  IN IF isNumber(s) THEN numValue(numberOf(s))
     ELSE IF inner(s) = <<>> THEN arrValue(<<>>)
     ELSE arrValue(<<parsed(inner(s))>>)

returned(v) == [done |-> TRUE, raised |-> FALSE, value |-> v]
thrown == [done |-> TRUE, raised |-> TRUE, value |-> NotLoaded.value]

\* a mutation of load: no try/catch around the body
loadNoCatch(item, fallback) ==
  IF item.throws THEN thrown
  ELSE IF ~item.present \/ item.raw = <<>> THEN returned(fallback)
  ELSE IF ~isJSON(item.raw) THEN thrown
  ELSE returned(parsed(item.raw))

\* load: getItem or JSON.parse may throw, and the catch returns the
\* fallback; a null or empty raw is falsy and yields the fallback
load(item, fallback) ==
  IF item.throws THEN returned(fallback)
  ELSE IF ~item.present \/ item.raw = <<>> THEN returned(fallback)
  ELSE IF ~isJSON(item.raw) THEN returned(fallback)
  ELSE returned(parsed(item.raw))

loadFrame == <<variant, today, goals, plans, meta, changed, lockUI, lastEdit, lastPass,
               choiceUI, focusUI, cloudUI>>

\* the component reads lsKey at mount
Load ==
  /\ variant = "load"
  /\ ~loadOut.done
  /\ loadOut' = load(lsItem, fallbackOf(lsKey))
  /\ UNCHANGED <<lsKey, lsItem, loadFrame>>

\* save(key, value) of a later session: another string is stored and the
\* page is opened again
Store(raw) ==
  /\ variant = "load"
  /\ loadOut.done
  /\ ~lsItem.throws
  /\ ~lsItem.present
  /\ lsItem' = [throws |-> FALSE, present |-> TRUE, raw |-> raw]
  /\ loadOut' = NotLoaded
  /\ UNCHANGED <<lsKey, loadFrame>>

\* before the first render: any key, and storage that throws (disabled), is
\* empty, or holds any string
InitLoad ==
  /\ variant = "load"
  /\ goals = <<>>
  /\ InitApp
  /\ lsKey \in Keys
  /\ lsItem \in {[throws |-> TRUE, present |-> FALSE, raw |-> <<>>], NoItem}
                 \cup {[throws |-> FALSE, present |-> TRUE, raw |-> r] : r \in RawsUpTo(MaxLen)}
  /\ loadOut = NotLoaded

NextLoad ==
  \/ Load
  \/ \E r \in RawsUpTo(1) : Store(r)

SpecLoad == InitLoad /\ [][NextLoad]_vars

(* ===== lock variant, a stored plan with many tasks (GoalApp.tsx) ====== *)
\* perGoalToday: avg = Math.round(sum / list.length),
\* delta = Math.round((avg / 100) * (g.dailyWeight ?? 5))
perGoalDelta(list, weight) ==
  IF list = <<>> THEN 0 ELSE creditDelta(dayAverage(list), weight)

\* the plan found in storage: n tasks of the seed goal, which is a priority
manyPlan(percents) ==
  [EmptyPlan EXCEPT
     !.priorities = <<SeedGoal>>,
     !.tasks = [i \in 1..Len(percents) |->
                  [id |-> i, goalId |-> SeedGoal, title |-> i, how |-> i,
                   percent |-> percents[i]]]]

\* the page is opened on a day whose stored plan holds 1..MaxManyTasks
\* tasks (added and stepped earlier that day); nothing else is stored
InitMany ==
  /\ variant = "lock"
  /\ goals = seedGoals
  /\ InitStorage
  /\ today = 1
  /\ \E n \in 1..MaxManyTasks : \E percents \in [1..n -> ManyPercents] :
       plans = [d \in {1} |-> manyPlan(percents)]
  /\ meta = <<>>
  /\ changed = {"ready"}
  /\ tried = ""
  /\ whyNot = <<>>
  /\ postponeMap = {}
  /\ catchOpen = FALSE
  /\ catchDate = NoDay
  /\ catchTasks = <<>>
  /\ cuTried = ""
  /\ cuWhy = <<>>
  /\ lastEdit = 0
  /\ lastPass = NoPass
  /\ closes = 0
  /\ taskOpen = FALSE
  /\ taskGoalId = NoGoal
  /\ taskDate = NoDay
  /\ reflectOpen = FALSE
  /\ reflectGoalId = NoGoal
  /\ reflectDate = NoDay
  /\ postOpen = FALSE
  /\ postTask = NoTask
  /\ running = FALSE
  /\ remainingSec = 0
  /\ needsAck = FALSE
  /\ ackDeadline = None
  /\ nextAckAt = None
  /\ tickRef = FALSE
  /\ startTimeRef = None
  /\ now = 0
  /\ cbRunning = FALSE
  /\ cbNeedsAck = FALSE
  /\ promptedAt = None
  /\ starts = 0
  /\ focusedCount = 0
  /\ focusedSessions = <<>>
  /\ journalApp = NoJournal
  /\ page = NoPage

NextMany ==
  \/ \E k \in TriedChoices : SetTried(k)
  \/ \E w \in WhyTexts : SetWhyNot(w)
  \/ LockCloseDay
  \/ LockEffects

SpecMany == InitMany /\ [][NextMany]_vars

(* ============================ properties ============================== *)
creditToday(g) == creditAt(planToday.credits, g)

\* progress a goal was created with
baseProgress(g) == IF g = SeedGoal THEN SeedProgress ELSE NewProgress

\* sum of the credits recorded for goal g over the stored days
RECURSIVE creditSum(_, _)
creditSum(g, days) ==
  IF days = {} THEN 0
  ELSE LET d == CHOOSE x \in days : TRUE
       IN creditAt(plans[d].credits, g) + creditSum(g, days \ {d})

\* C1 (idempotence): an effects pass that follows an earlier pass, with no
\* handler in between (so neither today's tasks nor any weight changed since
\* the applier last ran), leaves every goal and today's credits unchanged.
C1_Idempotent ==
  [][(variant = "dynamic" /\ changed # {} /\ lastPass.ran)
       => (goals' = goals /\ PlanOf(plans', today').credits = planToday.credits)]_vars

\* the applier has just applied a non-zero credit and is scheduled again
C1_Witness ==
  /\ variant = "dynamic"
  /\ changed # {}
  /\ lastPass.applied
  /\ \E g \in DOMAIN goals :
       creditToday(g) > 0 /\ goals[g].progress > lastPass.goals[g].progress

\* C2 (diff-only): when the applier changes goal g's credit from c1 to c2,
\* g's progress becomes its old progress plus exactly c2 - c1, cut to 0..100.
C2_DiffOnly ==
  (variant = "dynamic" /\ lastPass.applied) =>
    \A g \in DOMAIN goals :
      LET c1 == creditAt(lastPass.credits, g)
          c2 == creditToday(g)
          p  == lastPass.goals[g].progress + (c2 - c1)
      IN goals[g].progress = IF p < 0 THEN 0 ELSE IF p > 100 THEN 100 ELSE p

\* a credit of 2 has been replaced by a credit of 5: progress rose by 3
C2_Witness ==
  /\ variant = "dynamic"
  /\ lastPass.applied
  /\ \E g \in DOMAIN goals :
       /\ creditAt(lastPass.credits, g) = 2
       /\ creditToday(g) = 5
       /\ goals[g].progress = lastPass.goals[g].progress + 3

\* C3 (progress conservation), as stated: every goal's progress equals the
\* progress it was created with plus the sum over all days of the credit
\* recorded for it, cut to 0..100.
C3_Conservation ==
  variant = "dynamic" =>
    \A g \in DOMAIN goals :
      goals[g].progress = clamp(baseProgress(g) + creditSum(g, DOMAIN plans), 0, 100)

\* C4 (per-day boundedness): once the applier has run, the credit recorded
\* today for a goal lies between 0 and the goal's daily weight.
C4_Bounded ==
  (variant = "dynamic" /\ lastPass.ran) =>
    \A g \in DOMAIN planToday.credits :
      creditToday(g) >= 0 /\ creditToday(g) <= weightOf(goals, g)

\* two tasks of one goal are at 100% and the goal's credit is its weight of 90
C4_Witness ==
  /\ variant = "dynamic"
  /\ lastPass.ran
  /\ \E g \in DOMAIN goals :
       /\ Len(TasksOfGoal(planToday.tasks, g)) = 2
       /\ \A t \in Range(planToday.tasks) : t.percent = 100
       /\ goals[g].dailyWeight = 90
       /\ creditToday(g) = 90

\* C6 (credit formula), as stated: once the applier has run, the credit of a
\* goal with tasks today is round(A / 100 * dailyWeight), A the rounded mean
\* of the goal's task percents.
C6_Formula ==
  (variant = "dynamic" /\ lastPass.ran) =>
    \A g \in {t.goalId : t \in Range(planToday.tasks)} :
      LET list == TasksOfGoal(planToday.tasks, g)
          A    == Round(SumSeq(Percentages(list)), Len(list))
      IN creditToday(g) = Round(A * weightOf(goals, g), 100)

\* the delta closeDayAndUpdate would add to goal h for the tasks of day d
closeCredit(gs, p, d, h) ==
  LET list == TasksOfGoal(PlanOf(p, d).tasks, h)
  IN IF list = <<>> THEN 0 ELSE closeDelta(list, gs[h].dailyWeight)

\* the step condition of C7
C7_Step ==
  variant \in {"dynamic", "lock"} =>
    LET g == IF Settled THEN lastEdit' ELSE lastEdit
    IN g # 0 =>
         \A h \in DOMAIN goals \ {g} :
           /\ h \in DOMAIN goals'
           /\ goals'[h] = goals[h]
           /\ creditAt(PlanOf(plans', today').credits, h) = creditToday(h)
           /\ closeCredit(goals', plans', today', h) = closeCredit(goals, plans, today, h)

\* C7 (locality): a handler that edits a task of goal g (add, remove, percent
\* change), and the effects passes that follow it, change neither the
\* progress of any other goal nor its credit for the day: the credit stored
\* by the applier (dynamic), the delta closing the day would add (lock).
C7_Locality ==
  [][C7_Step]_vars

\* an edit of a task of one goal has been credited while another goal holds
\* a credit of its own
C7_Witness ==
  /\ variant = "dynamic"
  /\ lastPass.applied
  /\ lastEdit # 0
  /\ creditToday(lastEdit) # creditAt(lastPass.credits, lastEdit)
  /\ \E h \in DOMAIN goals \ {lastEdit} : creditToday(h) > 0

\* the text holds a character that is not white space
hasText(w) == \E i \in 1..Len(w) : w[i] # " "

\* C5 (progress range): in every state of every variant each goal's progress
\* lies within 0..100 (the entries variant stores it times EntryScale).
C5_ProgressRange ==
  \A g \in DOMAIN goals :
    IF variant = "entries"
    THEN goals[g].progress >= 0 /\ goals[g].progress <= 100 * EntryScale
    ELSE goals[g].progress >= 0 /\ goals[g].progress <= 100

\* closing a day has cut the seed goal's progress, stored as 98, to 100
C5_Witness ==
  /\ variant = "lock"
  /\ closes > 0
  /\ submitted(meta, today)
  /\ \A t \in Range(planToday.tasks) : t.goalId = SeedGoal /\ t.percent = 100
  /\ planToday.tasks # <<>>
  /\ goals[SeedGoal].progress = 100

C9_CatchUpBlocks ==
  [][(variant = "lock" /\ (today - 1) \in DOMAIN plans /\ ~submitted(meta, today - 1))
       => /\ PlanOf(plans', today).priorities = planToday.priorities
          /\ PlanOf(plans', today).tasks = planToday.tasks]_vars

\* C10 (closed days have a task), as stated: every day whose meta is
\* submitted and whose plan is locked has at least one task.
C10_ClosedHasTask ==
  variant = "lock" =>
    \A d \in DOMAIN meta :
      (submitted(meta, d) /\ PlanOf(plans, d).locked) => Len(PlanOf(plans, d).tasks) >= 1

\* the step condition of C11
C11_Step ==
  variant \in LockVariants =>
    \A d \in DOMAIN plans :
      plans[d].locked =>
        /\ d \in DOMAIN plans'
        /\ plans'[d].tasks = plans[d].tasks
        /\ plans'[d].priorities = plans[d].priorities

\* C11 (lock immutability), as stated: in the variants with a close-day
\* step, no step changes the tasks (any field of any task) or the priorities
\* of a day whose plan is locked.
C11_LockedImmutable == [][C11_Step]_vars

\* the step condition of C12
C12_Step ==
  LockCloseDay =>
    LET T    == planToday.tasks
        F    == {t \in Range(T) : t.id \in postponeMap /\ t.percent < 100}
        old  == PlanOf(plans, today + 1).tasks
        new  == PlanOf(plans', today + 1).tasks
        k    == Len(new) - Len(old)
    IN /\ plans'[today].tasks = T
       /\ k = Cardinality(F)
       /\ SubSeq(new, k + 1, Len(new)) = old
       /\ \A i \in 1..k :
            /\ new[i].id \notin UsedIds
            /\ \A j \in 1..k : new[j].id = new[i].id => j = i
            /\ new[i].percent = 0
            /\ \E t \in F : /\ new[i].goalId = t.goalId
                            /\ new[i].title = t.title
                            /\ new[i].how = t.how
       /\ \A t \in F :
            /\ Cardinality({i \in 1..k : new[i].title = t.title}) = 1
            /\ t.goalId \in Range(PlanOf(plans', today + 1).priorities)

copiesToday(t) ==
  {i \in 1..Len(planToday.tasks) :
     /\ planToday.tasks[i].title = t.title
     /\ planToday.tasks[i].goalId = t.goalId
     /\ planToday.tasks[i].id # t.id}

\* C13 (carry-forward once per day): when the effects have settled after a
\* day change (no handler has run since), today's carriedFrom is yesterday
\* and every task of yesterday that is flagged and below 100% has exactly
\* one copy in today's plan; at no time does such a task have two copies.
C13_CarryOnce ==
  (variant = "dynamic" /\ (today - 1) \in DOMAIN plans) =>
    LET yPlan == plans[today - 1]
    IN /\ \A t \in Range(yPlan.tasks) : Cardinality(copiesToday(t)) <= 1
       /\ (Settled /\ lastPass.rolled) =>
            /\ planToday.carriedFrom = today - 1
            /\ \A t \in Range(yPlan.tasks) :
                 Cardinality(copiesToday(t)) =
                   IF t.id \in yPlan.postponeFlags /\ t.percent < 100 THEN 1 ELSE 0

\* the effects have settled after a day change and today's plan holds, at
\* 0%, the copy of a task that was flagged yesterday at 25%
C13_Witness ==
  /\ variant = "dynamic"
  /\ Settled /\ lastPass.rolled
  /\ (today - 1) \in DOMAIN plans
  /\ planToday.carriedFrom = today - 1
  /\ \E t \in Range(plans[today - 1].tasks) :
       /\ t.id \in plans[today - 1].postponeFlags
       /\ t.percent = 25
       /\ \E i \in copiesToday(t) : planToday.tasks[i].percent = 0

\* C14 (missed check-in), as stated: a running session never has a check-in
\* prompt that has been pending for longer than the grace period (one tick
\* of the timer allowed for noticing it): by then the session has ended as
\* failed, the timer has stopped and focusedCount is 0.
C14_MissedCheckIn ==
  (variant = "focus" /\ promptedAt # None /\ now > promptedAt + Grace + 1) =>
    /\ ~running
    /\ ~tickRef
    /\ focusedCount = 0
    /\ focusedSessions = <<>>

\* the applier's first pass after a handler that changed only the goals
WeightPass ==
  /\ variant = "dynamic"
  /\ changed = {"goals"}
  /\ ~lastPass.ran
  /\ lastPass'.ran

\* round(A / 100 * weight) over the reals
exactCredit(avg, weight) == Round(avg * weight, 100)

\* the step condition of C15
C15_Step ==
  WeightPass =>
    /\ \A g \in {t.goalId : t \in Range(planToday.tasks)} \cap DOMAIN goals :
         LET list == TasksOfGoal(planToday.tasks, g)
             A    == Round(SumSeq(Percentages(list)), Len(list))
             new  == exactCredit(A, goals[g].dailyWeight)
         IN /\ creditAt(plans'[today].credits, g) = new
            /\ goals'[g].progress = clamp(goals[g].progress + (new - creditToday(g)), 0, 100)
    /\ \A d \in DOMAIN plans \ {today} : plans'[d] = plans[d]

\* C15 (current weight applies), as stated: in the applier pass that follows
\* updateGoalWeight, the credit of every goal with tasks today becomes
\* round(A / 100 * newWeight), the goal's progress moves by the difference to
\* the stored credit (clamped to 0..100), and no other day changes.
C15_WeightApplies == [][C15_Step]_vars

\* the step condition of C16
C16_Step ==
  \A taskId \in TaskIds, delta \in {-5, 5} :
    (DynIncTask(taskId, delta) \/ LockIncTask(taskId, delta)) =>
      /\ Len(plans'[today].tasks) = Len(planToday.tasks)
      /\ \A i \in 1..Len(planToday.tasks) :
           LET t == planToday.tasks[i]
           IN plans'[today].tasks[i] =
                IF t.id = taskId
                THEN [t EXCEPT !.percent = clamp(t.percent + delta, 0, 100)]
                ELSE t

\* C16 (stepping by 5), as stated: incTask(taskId, +5) raises the task's
\* percent by exactly 5 and incTask(taskId, -5) lowers it by exactly 5,
\* clamped to 0..100, and no other task changes.
C16_StepByFive == [][C16_Step]_vars

\* an integer multiple of 5 within 0..100
Quantized(p) == p \in 0..100 /\ p % 5 = 0

\* ids of the tasks stored in the plans p
taskIdsOf(p) == UNION {{t.id : t \in Range(p[d].tasks)} : d \in DOMAIN p}

\* every stored percent is quantized (and one of PCT in the choice
\* variant), and so is every value the +/- and quick buttons would store
C17_Now ==
  /\ \A d \in DOMAIN plans : \A t \in Range(plans[d].tasks) :
       /\ Quantized(t.percent)
       /\ variant = "choice" => t.percent \in PCT
       /\ \A delta \in {-5, 5} : Quantized(step(t.percent + delta))
  /\ \A v \in QuickChoices : Quantized(clamp(v, 0, 100))

\* a task whose id is new in the plans starts at 0
C17_Step ==
  \A d \in DOMAIN plans' : \A t \in Range(plans'[d].tasks) :
    t.id \notin taskIdsOf(plans) => t.percent = 0

\* C17 (quantized percent): every task's percent is an integer multiple of 5
\* within 0..100, and one of {0,5,20,50,100} in the PercentChoice variant;
\* tasks created by addTask and the copies made by postponement and
\* carry-forward start at 0.
C17_Quantized == []C17_Now /\ [][C17_Step]_vars

\* after a day change the dynamic variant holds today, at 0%, the copy of a
\* task that the + button had raised to 35% yesterday
C17_Witness ==
  /\ variant = "dynamic"
  /\ Settled /\ lastPass.rolled
  /\ (today - 1) \in DOMAIN plans
  /\ \E t \in Range(plans[today - 1].tasks) :
       /\ t.percent = 35
       /\ \E i \in copiesToday(t) : planToday.tasks[i].percent = 0

\* C18 (weight range), as stated: every goal's dailyWeight is an integer
\* within 1..100, whatever the -5/+5 buttons and the suggested-weight Apply do.
C18_WeightRange ==
  variant \in {"dynamic", "lock", "choice", "panel"} =>
    \A g \in DOMAIN goals : goals[g].dailyWeight \in 1..100

\* C19 (load fallback): once load(key, fallback) has run it has raised no
\* error; it has returned the fallback when getItem failed, nothing was
\* stored or the stored string is not JSON, and the parsed value otherwise.
C19_LoadFallback ==
  (variant = "load" /\ loadOut.done) =>
    /\ ~loadOut.raised
    /\ loadOut.value =
         IF lsItem.throws \/ ~lsItem.present \/ ~isJSON(lsItem.raw)
         THEN fallbackOf(lsKey)
         ELSE parsed(lsItem.raw)

\* load has returned the seed goals for a stored string that is not JSON
C19_Witness ==
  /\ variant = "load"
  /\ loadOut.done
  /\ lsKey = "goals"
  /\ lsItem.present /\ lsItem.raw = <<"[", "1">>
  /\ loadOut.value = fallbackOf("goals")

\* today has been closed: the plan is locked and the day's meta is saved
closedToday ==
  /\ today \in DOMAIN plans /\ plans[today].locked
  /\ today \in DOMAIN meta /\ meta[today].eodSubmitted

\* the step condition of C20
C20_Step ==
  (variant \in LockVariants /\ closedToday /\ closes' = closes + 1) =>
    \A g \in DOMAIN goals : g \in DOMAIN goals' /\ goals'[g].progress = goals[g].progress

\* C20 (rollup at most once a day), as stated: once closeDayAndUpdate has
\* closed today (plan locked, eodSubmitted), another run of
\* closeDayAndUpdate on the same day changes no goal's progress.
C20_RollupOnce == [][C20_Step]_vars

\* the step condition of C21
C21_Step ==
  (variant = "lock" /\ closes' = closes + 1) =>
    \A g \in Range(planToday.priorities) \cap DOMAIN goals :
      LET list == TasksOfGoal(planToday.tasks, g)
      IN list # <<>> =>
           goals'[g].progress =
             clamp(goals[g].progress + perGoalDelta(list, goals[g].dailyWeight), 0, 100)

\* C21 (preview equals rollup), as stated: the delta closeDayAndUpdate adds
\* to a goal with tasks today is the delta the "If you close now" preview
\* showed for it (perGoalToday.delta).
C21_PreviewMatches == [][C21_Step]_vars

\* the step condition of C22
C22_Step ==
  /\ CuSubmit =>
       /\ goals' = goals
       /\ catchDate \in DOMAIN meta' /\ meta'[catchDate].eodSubmitted
       /\ catchDate \in DOMAIN plans' /\ plans'[catchDate].locked
       /\ plans'[catchDate].tasks = PlanOf(plans, catchDate).tasks
       /\ \A d \in DOMAIN plans' \ {catchDate} : d \in DOMAIN plans /\ plans'[d] = plans[d]
       /\ \A d \in DOMAIN meta' \ {catchDate} : d \in DOMAIN meta /\ meta'[d] = meta[d]
  /\ (variant \in LockVariants /\ closes' = closes) =>
       \A g \in DOMAIN goals \cap DOMAIN goals' : goals'[g].progress = goals[g].progress

\* C22 (catch-up frame): submitting the catch-up dialog stores the
\* reflection of the dialog's day with eodSubmitted and locks that day's
\* plan; it changes no goal and no other day's plan or meta, and a goal's
\* progress changes only in a run of closeDayAndUpdate (which reads today's
\* tasks), so the percents of a day closed through catch-up are not rolled in.
C22_CatchUpFrame == [][C22_Step]_vars

\* yesterday was closed through the catch-up dialog with a task at 50%:
\* it is locked and submitted, no day was closed by closeDayAndUpdate, and
\* the goal's progress is the stored one
C22_Witness ==
  /\ variant = "lock"
  /\ closes = 0
  /\ ~catchOpen
  /\ (today - 1) \in DOMAIN plans /\ plans[today - 1].locked
  /\ (today - 1) \in DOMAIN meta /\ meta[today - 1].eodSubmitted
  /\ \E t \in Range(plans[today - 1].tasks) :
       /\ t.percent = 50
       /\ t.goalId \in DOMAIN goals
       /\ goals[t.goalId].progress \in StoredProgress

\* C23 (focus session completion), as stated: a running session whose
\* countdown is at zero with no check-in pending leads to a stopped timer
\* with a "completed" session at the head of the day's focusedSessions and
\* focusedCount one higher.
sessionCompleted ==
  /\ ~running
  /\ ~tickRef
  /\ focusedCount = 1
  /\ focusedSessions # <<>>
  /\ Head(focusedSessions) = "completed"

C27_Step ==
  \A card \in GoalIds, i \in 1..MaxEntryTasks, p \in EntryChoices :
    EntUpdateTask(card, i, p) =>
      /\ goals'[card].dailyEntries[today].tasks[i] = p
      /\ \A h \in DOMAIN goals \ {card} : goals'[h] = goals[h]

C27_ButtonActsOnCard == [][C27_Step]_vars

\* C28 (mean added at most once), as stated: once the entry of a goal for a
\* date has a saved reflection, no later Reflect & Complete changes that
\* goal's progress through that entry again.
C28_Step ==
  (EntReflectSave /\ hasEntry(reflectGoalId, reflectDate)
     /\ goals[reflectGoalId].dailyEntries[reflectDate].reflected)
    => goals'[reflectGoalId].progress = goals[reflectGoalId].progress

C28_AddedOnce == [][C28_Step]_vars

(* ================= journal page (components/JournalApp.tsx) ============ *)
\* journalApp holds the state of the component and of Firestore:
\*   dateKey, lack, completedHabits, loadedKey, habits - the useState values
\*     (improve and linkedGoals are handled as lack and completedHabits are)
\*   loading    - per date, how many getDoc() calls are in flight
\*   saveTimer  - the pending setTimeout of the auto-save effect with the
\*                values its closure holds (<<>> when none is pending)
\*   journal    - the documents users/uid/journal/<date>
\*   habitDocs  - how many documents users/uid/habits holds
\* A text is the sequence of its characters, each written as the date that
\* was selected when it was typed; a checked habit is the pair of the habit
\* and the date selected when it was checked.  Typed characters are not
\* blank, so trim() keeps the text.
JournalDates == 1..MaxDay
HabitCap == 3

journalFrame == <<variant, today, goals, plans, meta, changed, lockUI, lastEdit, lastPass,
                  choiceUI, focusUI, loadUI, page>>

\* the auto-save effect after a render in which one of its dependencies
\* changed: the cleanup clears the pending timer, and a new one is set
\* unless loadedKey differs from dateKey
autosave(j) ==
  [j EXCEPT !.saveTimer =
     IF j.loadedKey = j.dateKey
     THEN <<[date |-> j.dateKey, lack |-> j.lack, completedHabits |-> j.completedHabits]>>
     ELSE <<>>]

\* the date input: the load effect starts a getDoc for the new date
setDateKey(d) ==
  /\ variant = "journal"
  /\ d # journalApp.dateKey
  /\ journalApp.loading[d] < MaxLoads
  /\ journalApp' = autosave([journalApp EXCEPT !.dateKey = d, !.loading[d] = @ + 1])
  /\ UNCHANGED journalFrame

\* a character typed into the textarea
setLack ==
  /\ variant = "journal"
  /\ Len(journalApp.lack) < MaxTyped
  /\ journalApp' = autosave([journalApp EXCEPT !.lack = Append(@, journalApp.dateKey)])
  /\ UNCHANGED journalFrame

\* the checkbox of habit h
setCompletedHabits(h) ==
  /\ variant = "journal"
  /\ h \in 1..journalApp.habits
  /\ LET on == {c \in journalApp.completedHabits : c[1] = h}
     IN journalApp' = autosave([journalApp EXCEPT !.completedHabits =
                         IF on # {} THEN @ \ on ELSE @ \cup {<<h, journalApp.dateKey>>}])
  /\ UNCHANGED journalFrame

\* a getDoc for date d resolves: its .then sets the fields from the document
\* and loadedKey to the date the load was started for
getDocThen(d) ==
  /\ variant = "journal"
  /\ journalApp.loading[d] > 0
  /\ journalApp' = autosave([journalApp EXCEPT !.lack = journalApp.journal[d].lack,
                                               !.completedHabits = journalApp.journal[d].completedHabits,
                                               !.loadedKey = d,
                                               !.loading[d] = @ - 1])
  /\ UNCHANGED journalFrame

\* a getDoc for date d rejects: its .catch clears the fields
getDocCatch(d) ==
  /\ variant = "journal"
  /\ journalApp.loading[d] > 0
  /\ journalApp' = autosave([journalApp EXCEPT !.lack = <<>>,
                                               !.completedHabits = {},
                                               !.loadedKey = d,
                                               !.loading[d] = @ - 1])
  /\ UNCHANGED journalFrame

\* 500 ms have passed since the timer was set: setDoc(ref, entry, merge)
saveTimerFires ==
  /\ variant = "journal"
  /\ journalApp.saveTimer # <<>>
  /\ LET t == journalApp.saveTimer[1]
     IN journalApp' = [journalApp EXCEPT
                         !.journal[t.date] = [lack |-> t.lack, completedHabits |-> t.completedHabits],
                         !.saveTimer = <<>>]
  /\ UNCHANGED journalFrame

\* the Add button of the habits card: enabled while the local list is short
addHabit ==
  /\ variant = "journal"
  /\ journalApp.habits < HabitCap
  /\ journalApp.habitDocs < MaxHabitDocs
  /\ journalApp' = [journalApp EXCEPT !.habitDocs = @ + 1]
  /\ UNCHANGED journalFrame

\* the snapshot listener of the habits collection: setHabits(arr.slice(0, 3))
habitsSnapshot ==
  /\ variant = "journal"
  /\ journalApp.habits # Min(HabitCap, journalApp.habitDocs)
  /\ journalApp' = [journalApp EXCEPT !.habits = Min(HabitCap, journalApp.habitDocs)]
  /\ UNCHANGED journalFrame

\* what a date's document holds when it was written on that date
ownEntries(d) == {[lack |-> <<>>, completedHabits |-> {}], [lack |-> <<d>>, completedHabits |-> {}]}

\* the page is mounted with today selected: the load of today is in flight,
\* the habit listener has not delivered yet
InitJournal ==
  /\ variant = "journal"
  /\ goals = <<>>
  /\ InitStorage
  /\ InitCore
  /\ page = NoPage
  /\ \E docs \in [JournalDates -> UNION {ownEntries(d) : d \in JournalDates}], n \in 0..HabitCap :
       /\ \A d \in JournalDates : docs[d] \in ownEntries(d)
       /\ journalApp = [dateKey |-> today, lack |-> <<>>, completedHabits |-> {},
                        loadedKey |-> NoDay,
                        loading |-> [d \in JournalDates |-> IF d = today THEN 1 ELSE 0],
                        saveTimer |-> <<>>, journal |-> docs, habits |-> 0, habitDocs |-> n]

NextJournal ==
  \/ \E d \in JournalDates : setDateKey(d)
  \/ setLack
  \/ \E h \in 1..MaxToggled : setCompletedHabits(h)
  \/ \E d \in JournalDates : getDocThen(d)
  \/ \E d \in JournalDates : getDocCatch(d)
  \/ saveTimerFires
  \/ addHabit
  \/ habitsSnapshot

SpecJournal == InitJournal /\ [][NextJournal]_vars

\* every character and every checked habit of the document of date d was
\* entered while d was selected
ownText(d, e) ==
  /\ \A i \in 1..Len(e.lack) : e.lack[i] = d
  /\ \A c \in e.completedHabits : c[2] = d

\* C24 (autosave never crosses dates), as stated: under any interleaving of
\* date changes, loads completing and the debounce timer, the journal
\* document of a date holds only what was entered while that date was
\* selected.
C24_NoCrossing ==
  variant = "journal" => \A d \in JournalDates : ownText(d, journalApp.journal[d])

\* C25 (habit cap), as stated: never more than 3 habit documents exist,
\* also when Add is pressed again before the snapshot listener has updated
\* the local list.
C25_HabitCap ==
  variant = "journal" => journalApp.habitDocs <= HabitCap

(* ====== mounting and persistence (GoalApp.tsx:268-282, part_007:477-482) === *)
\* page holds what the mounting of the goals page works on:
\*   storage - localStorage under the keys of goals, plans and meta: <<>>
\*             when nothing is stored, <<v>> when the value v is stored
\*             (JSON.stringify and JSON.parse give back the stored value)
\*   guarded - TRUE for the variants whose save effects test the ready flag
\*             (GoalApp.tsx, part_005, part_006), FALSE for part_007
\*   ready   - the ready flag
\*   effects - the effects of the last commit that have not run yet
\*   queued  - <<updates>> once the init effect has called the setters; the
\*             next render applies them
\* goals, plans and meta are the component's state.
StorageKeys == {"goals", "plans", "meta"}

mountFrame == <<variant, today, changed, lockUI, lastEdit, lastPass,
                choiceUI, focusUI, loadUI, journalApp>>

\* the keys of a variant: part_007 has no plans
keysOf(guarded) == IF guarded THEN <<"goals", "plans", "meta">> ELSE <<"goals", "meta">>

\* the effects of the first commit, in the order they are declared
mountEffects(guarded) == <<"load">> \o keysOf(guarded)

\* the state the component holds under a key
stateOf(key) == IF key = "goals" THEN goals ELSE IF key = "plans" THEN plans ELSE meta

\* what load() falls back to when nothing is stored under the key
fallbackState(guarded, key) ==
  IF key = "goals" THEN (IF guarded THEN seedGoals ELSE sampleGoals) ELSE <<>>

\* load(key, fallback), loadGoals(), loadMeta(): raw ? JSON.parse(raw) : fallback
loaded(guarded, key) ==
  IF page.storage[key] = <<>> THEN fallbackState(guarded, key) ELSE page.storage[key][1]

\* the init effect: reads the three keys and calls the setters
mountLoad ==
  /\ variant = "mount"
  /\ page.effects # <<>>
  /\ Head(page.effects) = "load"
  /\ page' = [page EXCEPT !.effects = Tail(@),
                          !.queued = <<[k \in StorageKeys |-> loaded(page.guarded, k)]>>]
  /\ UNCHANGED <<goals, plans, meta, mountFrame>>

\* a persistence effect: save(key, state), under "if (ready)" where guarded
mountSave(key) ==
  /\ variant = "mount"
  /\ page.effects # <<>>
  /\ Head(page.effects) = key
  /\ page' = [page EXCEPT !.effects = Tail(@),
                          !.storage[key] = IF page.guarded /\ ~page.ready THEN @ ELSE <<stateOf(key)>>]
  /\ UNCHANGED <<goals, plans, meta, mountFrame>>

\* the render that follows the init effect: the state takes the loaded
\* values (new objects, so every persistence effect runs again), ready is set
mountRender ==
  /\ variant = "mount"
  /\ page.effects = <<>>
  /\ page.queued # <<>>
  /\ goals' = page.queued[1]["goals"]
  /\ plans' = IF page.guarded THEN page.queued[1]["plans"] ELSE plans
  /\ meta' = page.queued[1]["meta"]
  /\ page' = [page EXCEPT !.ready = page.guarded, !.queued = <<>>, !.effects = keysOf(page.guarded)]
  /\ UNCHANGED mountFrame

\* the page at rest: every effect has run and nothing is queued
mountSettled == variant = "mount" /\ page.effects = <<>> /\ page.queued = <<>>

\* the user adds a goal: setGoals, then the persistence effect of goals
mountAddGoal ==
  /\ mountSettled
  /\ Len(goals) < MaxGoals
  /\ goals' = Append(goals, IF page.guarded
                            THEN [progress |-> NewProgress, dailyWeight |-> DefaultWeight]
                            ELSE [progress |-> 0, dailyEntries |-> <<>>])
  /\ page' = [page EXCEPT !.effects = <<"goals">>]
  /\ UNCHANGED <<plans, meta, mountFrame>>

\* the page is opened again: the state starts from its initial values
mountReload ==
  /\ mountSettled
  /\ goals' = <<>>
  /\ plans' = <<>>
  /\ meta' = <<>>
  /\ page' = [page EXCEPT !.ready = FALSE, !.effects = mountEffects(page.guarded)]
  /\ UNCHANGED mountFrame

\* what an earlier session may have stored
storedGoals(guarded) ==
  IF guarded
  THEN {[g \in {SeedGoal} |-> [progress |-> p, dailyWeight |-> DefaultWeight]] : p \in StoredProgress}
  ELSE {[g \in {SeedGoal} |-> [progress |-> 50, dailyEntries |-> <<>>]]}

storedMeta(guarded) ==
  IF guarded
  THEN {[d \in {1} |-> [triedWell |-> "Yes", whyNotComplete |-> <<>>, eodSubmitted |-> TRUE]]}
  ELSE {[d \in {1} |-> [priorities |-> <<SeedGoal>>]]}

\* the first commit of the page: initial state, nothing has run yet
InitMount ==
  /\ variant = "mount"
  /\ goals = <<>>
  /\ InitStorage
  /\ InitCore
  /\ journalApp = NoJournal
  /\ \E guarded \in BOOLEAN :
     \E g \in {<<>>} \cup {<<v>> : v \in storedGoals(guarded) \cup {<<>>}},
        p \in IF guarded THEN {<<>>, << <<>> >>} ELSE {<<>>},
        m \in {<<>>} \cup {<<v>> : v \in storedMeta(guarded)} :
       page = [storage |-> [goals |-> g, plans |-> p, meta |-> m],
               guarded |-> guarded, ready |-> FALSE,
               effects |-> mountEffects(guarded), queued |-> <<>>]

NextMount ==
  \/ mountLoad
  \/ \E key \in StorageKeys : mountSave(key)
  \/ mountRender
  \/ mountAddGoal
  \/ mountReload

SpecMount == InitMount /\ [][NextMount]_vars

(* ====================== all the goal-page variants ===================== *)
Init ==
  \/ InitDyn
  \/ InitLock
  \/ InitChoice
  \/ InitFocus
  \/ InitEntries
  \/ InitPanel
  \/ InitLoad

\* the page that is open decides which handlers exist
Next ==
  \/ variant = "dynamic" /\ NextDyn
  \/ variant = "lock" /\ NextLock
  \/ variant = "choice" /\ NextChoice
  \/ variant = "focus" /\ NextFocus
  \/ variant = "entries" /\ NextEntries
  \/ variant = "panel" /\ NextPanel
  \/ variant = "load" /\ NextLoad

Spec == Init /\ [][Next]_vars


\* the state has been populated from local storage: the init effect has run
\* and a render has applied what it loaded
populated == \A i \in 1..Len(page.effects) : page.effects[i] # "load"

\* C26 (no save before load), as stated: no step replaces what is stored
\* under a key unless the state in memory has been populated from local
\* storage, so stored data is never overwritten by the initial state.
C26_Step ==
  \A key \in StorageKeys :
    (page.storage[key] # <<>> /\ page'.storage[key] # page.storage[key])
      => (populated /\ page.queued = <<>>)

C26_NoSaveBeforeLoad == [][C26_Step]_vars

====
